---- MODULE Spec2Model ----
(***************************************************************************)
(* Model of scripts/v1_gate.py, the V1 quality gate of hwp-bridge.         *)
(*                                                                         *)
(* Conventions                                                             *)
(*  - Optional[T]: None is the empty tuple <<>>, a value v is <<v>>.       *)
(*  - bytes: the sequence of the byte values (0..255); text: the sequence   *)
(*    of the code points of its characters. Text(<<"a", "b">>) is the     *)
(*    ASCII text "ab", and the bytes that encode it.                       *)
(*  - float rates and thresholds: exact fractions <<numerator, denom>>.    *)
(*    A rate is kept as the quotient the float ok / total is computed      *)
(*    from; a threshold has at most five decimals. Comparison of the       *)
(*    floats then agrees with comparison of the fractions, and round(x, 4) *)
(*    is computed from the float (FloatError).                             *)
(*  - a relative path is a string of the sorted pool Names.                *)
(*  - the tree main() starts on is what an earlier run left: earlier.      *)
(*  - a local the code binds once and reads several times is bound by a    *)
(*    singleton: CHOOSE r \in {F(v) : v \in {e}} : TRUE is F(e), with e    *)
(*    computed once.                                                       *)
(***************************************************************************)
EXTENDS Integers, Sequences, FiniteSets, TLC

VARIABLES
    corpus_exists,  \* corpus_dir.exists()
    manifest,       \* the manifest file: [exists, parsable, data]
    disk,           \* relpaths of the regular *.hwp files under corpus_dir
    bin_exists,     \* hwp_bin.exists()
    bin_executable, \* the operating system can execute hwp_bin
    earlier,        \* reports/v1_gate as main() finds it: [dir, details, summary]
    args,           \* argparse namespace
    pc,             \* position in main()
    category_map,   \* ordered dict relpath -> Optional category
    files,          \* resolved list of relpaths
    pos,            \* number of loop iterations started
    cur,            \* locals of the current loop iteration
    results,        \* list[RunResult]
    reports_dir,    \* reports/v1_gate exists
    details,        \* lines of <ts>_details.jsonl
    summary,        \* content of <ts>_summary.json, Optional
    agg,            \* locals of the aggregation read by the gate
    exit_code,      \* Optional process exit status
    log,            \* external effects in order: subprocess runs and file writes
    timings,        \* argument of percentiles()
    timing_stats    \* result of percentiles()

vars == <<corpus_exists, manifest, disk, bin_exists, bin_executable, earlier, args, pc,
          category_map, files, pos, cur, results, reports_dir, details, summary, agg,
          exit_code, log, timings, timing_stats>>

----------------------------------------------------------------------------
\* Bounds of the model.

\* files in the corpus (Spec)
MaxFiles == 3
\* length of the result list drawn for the aggregation (SpecGate)
MaxResults == 3
\* length of the list given to percentiles (SpecPct)
MaxLen == 4
\* largest timing value given to percentiles (SpecPct)
MaxVal == 3

----------------------------------------------------------------------------
\* Generic helpers.

None == <<>>

Some(x) == <<x>>

Names == <<"a.hwp", "b.hwp", "c.hwp", "d.hwp", "e.hwp", "f.hwp">>

NameIndex(rel) == CHOOSE i \in 1..Len(Names) : Names[i] = rel

Min2(a, b) == IF a < b THEN a ELSE b

Max2(a, b) == IF a > b THEN a ELSE b

RECURSIVE Concat(_)
Concat(ss) == IF ss = <<>> THEN <<>> ELSE Head(ss) \o Concat(Tail(ss))

\* a < b on fractions with positive denominators
FracLt(a, b) == a[1] * b[2] < b[1] * a[2]

\* Python round() of a non-negative fraction n/d to an integer: half to even
RoundHalfEven(n, d) ==
    LET q == n \div d
        r == n % d
    IN  IF 2 * r < d THEN q
        ELSE IF 2 * r > d THEN q + 1
        ELSE IF q % 2 = 0 THEN q ELSE q + 1

\* (n * 2^k) % d
RECURSIVE Remainder(_, _, _)
Remainder(n, d, k) == IF k = 0 THEN n % d ELSE (2 * Remainder(n, d, k - 1)) % d

\* The float n / d of line 163 against the quotient it stands for, 0 <= n <= d:
\* 1 where the float is above the quotient, -1 where it is below, 0 where the
\* quotient is a float. The float keeps the 53 binary digits from the leading
\* one on, that is down to the digit z + 52 behind the point when the leading
\* one is the digit z, and is rounded to the nearest, the even one of two.
FloatError(n, d) ==
    IF n % d = 0 THEN 0
    ELSE LET z == CHOOSE k \in 1..30 : n * 2^(k - 1) < d /\ d <= n * 2^k
             rest == Remainder(n, d, z + 52)
             last == (2 * Remainder(n, d, z + 51)) \div d
         IN  IF rest = 0 THEN 0
             ELSE IF 2 * rest > d THEN 1
             ELSE IF 2 * rest < d THEN 0 - 1
             ELSE IF last = 1 THEN 1 ELSE 0 - 1

\* round(x, 4) of the float x = n / d, as a multiple of 1/10000: the nearest
\* multiple to the float; the float stands halfway between two multiples only
\* where the quotient does and is a float
Round4(x) ==
    CHOOSE rounded \in
        {LET q == (n * 10000) \div d
             r == (n * 10000) % d
             up == IF 2 * r # d THEN 2 * r > d
                   ELSE IF FloatError(n, d) # 0 THEN FloatError(n, d) > 0
                   ELSE q % 2 = 1
         IN  <<IF up THEN q + 1 ELSE q, 10000>>
         : n \in {x[1]}, d \in {x[2]}} : TRUE

----------------------------------------------------------------------------
\* Characters and bytes

\* the printable ASCII characters from the space (32) to the underscore (95)
AsciiLow ==
    <<" ", "!", "\"", "#", "$", "%", "&", "'", "(", ")", "*", "+", ",", "-", ".", "/",
      "0", "1", "2", "3", "4", "5", "6", "7", "8", "9", ":", ";", "<", "=", ">", "?",
      "@", "A", "B", "C", "D", "E", "F", "G", "H", "I", "J", "K", "L", "M", "N", "O",
      "P", "Q", "R", "S", "T", "U", "V", "W", "X", "Y", "Z", "[", "\\", "]", "^", "_">>

\* the printable ASCII characters from a (97) to the tilde (126)
AsciiHigh ==
    <<"a", "b", "c", "d", "e", "f", "g", "h", "i", "j", "k", "l", "m", "n", "o",
      "p", "q", "r", "s", "t", "u", "v", "w", "x", "y", "z", "{", "|", "}", "~">>

\* ord(c) of an ASCII character written as a string
Ord ==
    [c \in {AsciiLow[n] : n \in 1..Len(AsciiLow)} \cup {AsciiHigh[n] : n \in 1..Len(AsciiHigh)}
           \cup {"\t", "\n", "\f", "\r"} |->
        CASE c = "\t" -> 9
          [] c = "\n" -> 10
          [] c = "\f" -> 12
          [] c = "\r" -> 13
          [] \E n \in 1..Len(AsciiLow) : AsciiLow[n] = c ->
                31 + CHOOSE n \in 1..Len(AsciiLow) : AsciiLow[n] = c
          [] OTHER -> 96 + CHOOSE n \in 1..Len(AsciiHigh) : AsciiHigh[n] = c]

\* the text, or the bytes, written as a list of ASCII characters
Text(cs) == [n \in 1..Len(cs) |-> Ord[cs[n]]]

\* s[i], or -1 behind the end of s
At(s, i) == IF i <= Len(s) THEN s[i] ELSE 0 - 1

\* the first index from i on whose character is not in set, Len(s) + 1 when
\* there is none
Span(s, i, set) ==
    IF i > Len(s) THEN i
    ELSE CHOOSE j \in i..(Len(s) + 1) :
            At(s, j) \notin set /\ \A k \in i..(j - 1) : s[k] \in set

\* The bytes that may follow the first byte c of a UTF-8 sequence
Utf8Second(c) ==
    CASE c = 224 -> 160..191
      [] c = 237 -> 128..159
      [] c = 240 -> 144..191
      [] c = 244 -> 128..143
      [] OTHER -> 128..191

\* the number of bytes that follow the first byte c of a UTF-8 sequence, 0 for
\* a byte that starts none
Utf8More(c) ==
    IF c \in 194..223 THEN 1
    ELSE IF c \in 224..239 THEN 2
    ELSE IF c \in 240..244 THEN 3
    ELSE 0

\* the length of the longest well-formed beginning of a sequence at b[i]
Utf8Valid(b, i) ==
    IF Utf8More(b[i]) = 0 THEN 0
    ELSE 1 + Cardinality({k \in 1..Utf8More(b[i]) :
                \A m \in 1..k :
                    At(b, i + m) \in (IF m = 1 THEN Utf8Second(b[i]) ELSE 128..191)})

\* the character of the complete sequence at b[i]
Utf8Char(b, i) ==
    CASE Utf8More(b[i]) = 1 -> (b[i] - 192) * 64 + (b[i + 1] - 128)
      [] Utf8More(b[i]) = 2 -> (b[i] - 224) * 4096 + (b[i + 1] - 128) * 64 + (b[i + 2] - 128)
      [] Utf8More(b[i]) = 3 -> (b[i] - 240) * 262144 + (b[i + 1] - 128) * 4096
                               + (b[i + 2] - 128) * 64 + (b[i + 3] - 128)

\* bytes.decode("utf-8", errors="replace") from b[i] on: a sequence that is
\* cut short or ill-formed gives U+FFFD (65533) for its well-formed beginning,
\* or for its first byte when that starts no sequence
RECURSIVE DecodeFrom(_, _, _)
DecodeFrom(b, i, acc) ==
    CHOOSE r \in
        {IF j > Len(b) THEN acc \o SubSeq(b, i, Len(b))
         ELSE CHOOSE q \in
                {IF n = Utf8More(b[j]) + 1
                 THEN DecodeFrom(b, j + n, acc \o SubSeq(b, i, j - 1) \o <<Utf8Char(b, j)>>)
                 ELSE DecodeFrom(b, j + (IF n = 0 THEN 1 ELSE n),
                                 acc \o SubSeq(b, i, j - 1) \o <<65533>>)
                 : n \in {Utf8Valid(b, j)}} : TRUE
         : j \in {Span(b, i, 0..127)}} : TRUE

Decode(b) == CHOOSE text \in {DecodeFrom(bytes, 1, <<>>) : bytes \in {b}} : TRUE

\* one entry <<first, last, step, offset>> of a case table holds c
InRun(run, c) == run[1] <= c /\ c <= run[2] /\ (c - run[1]) % run[3] = 0

\* the characters a case table gives for c: those of its entry in special,
\* else c moved by the offset of its run, else c
CaseMapped(runs, special, c) ==
    IF \E n \in 1..Len(special) : special[n][1] = c
    THEN special[CHOOSE n \in 1..Len(special) : special[n][1] = c][2]
    ELSE IF \E n \in 1..Len(runs) : InRun(runs[n], c)
    THEN <<c + runs[CHOOSE n \in 1..Len(runs) : InRun(runs[n], c)][4]>>
    ELSE <<c>>

InRanges(ranges, c) == \E n \in 1..Len(ranges) : ranges[n][1] <= c /\ c <= ranges[n][2]

\* str.lower() of one character from U+0080 on, the capital sigma (931) apart:
\* <<first, last, step, offset>>, every step-th character from first to last
\* maps to itself plus offset (unicodedata 14.0.0)
LowerRuns ==
    <<<<192, 214, 1, 32>>, <<216, 222, 1, 32>>, <<256, 302, 2, 1>>, <<306, 310, 2, 1>>,
      <<313, 327, 2, 1>>, <<330, 374, 2, 1>>, <<376, 376, 1, 0 - 121>>, <<377, 381, 2, 1>>,
      <<385, 385, 1, 210>>, <<386, 388, 2, 1>>, <<390, 390, 1, 206>>, <<391, 391, 1, 1>>,
      <<393, 394, 1, 205>>, <<395, 395, 1, 1>>, <<398, 398, 1, 79>>, <<399, 399, 1, 202>>,
      <<400, 400, 1, 203>>, <<401, 401, 1, 1>>, <<403, 403, 1, 205>>, <<404, 404, 1, 207>>,
      <<406, 406, 1, 211>>, <<407, 407, 1, 209>>, <<408, 408, 1, 1>>, <<412, 412, 1, 211>>,
      <<413, 413, 1, 213>>, <<415, 415, 1, 214>>, <<416, 420, 2, 1>>, <<422, 422, 1, 218>>,
      <<423, 423, 1, 1>>, <<425, 425, 1, 218>>, <<428, 428, 1, 1>>, <<430, 430, 1, 218>>,
      <<431, 431, 1, 1>>, <<433, 434, 1, 217>>, <<435, 437, 2, 1>>, <<439, 439, 1, 219>>,
      <<440, 440, 1, 1>>, <<444, 444, 1, 1>>, <<452, 452, 1, 2>>, <<453, 453, 1, 1>>,
      <<455, 455, 1, 2>>, <<456, 456, 1, 1>>, <<458, 458, 1, 2>>, <<459, 475, 2, 1>>,
      <<478, 494, 2, 1>>, <<497, 497, 1, 2>>, <<498, 500, 2, 1>>, <<502, 502, 1, 0 - 97>>,
      <<503, 503, 1, 0 - 56>>, <<504, 542, 2, 1>>, <<544, 544, 1, 0 - 130>>, <<546, 562, 2, 1>>,
      <<570, 570, 1, 10795>>, <<571, 571, 1, 1>>, <<573, 573, 1, 0 - 163>>,
      <<574, 574, 1, 10792>>, <<577, 577, 1, 1>>, <<579, 579, 1, 0 - 195>>, <<580, 580, 1, 69>>,
      <<581, 581, 1, 71>>, <<582, 590, 2, 1>>, <<880, 882, 2, 1>>, <<886, 886, 1, 1>>,
      <<895, 895, 1, 116>>, <<902, 902, 1, 38>>, <<904, 906, 1, 37>>, <<908, 908, 1, 64>>,
      <<910, 911, 1, 63>>, <<913, 929, 1, 32>>, <<932, 939, 1, 32>>, <<975, 975, 1, 8>>,
      <<984, 1006, 2, 1>>, <<1012, 1012, 1, 0 - 60>>, <<1015, 1015, 1, 1>>, <<1017, 1017, 1, 0 - 7>>,
      <<1018, 1018, 1, 1>>, <<1021, 1023, 1, 0 - 130>>, <<1024, 1039, 1, 80>>,
      <<1040, 1071, 1, 32>>, <<1120, 1152, 2, 1>>, <<1162, 1214, 2, 1>>, <<1216, 1216, 1, 15>>,
      <<1217, 1229, 2, 1>>, <<1232, 1326, 2, 1>>, <<1329, 1366, 1, 48>>,
      <<4256, 4293, 1, 7264>>, <<4295, 4295, 1, 7264>>, <<4301, 4301, 1, 7264>>,
      <<5024, 5103, 1, 38864>>, <<5104, 5109, 1, 8>>, <<7312, 7354, 1, 0 - 3008>>,
      <<7357, 7359, 1, 0 - 3008>>, <<7680, 7828, 2, 1>>, <<7838, 7838, 1, 0 - 7615>>,
      <<7840, 7934, 2, 1>>, <<7944, 7951, 1, 0 - 8>>, <<7960, 7965, 1, 0 - 8>>,
      <<7976, 7983, 1, 0 - 8>>, <<7992, 7999, 1, 0 - 8>>, <<8008, 8013, 1, 0 - 8>>,
      <<8025, 8031, 2, 0 - 8>>, <<8040, 8047, 1, 0 - 8>>, <<8072, 8079, 1, 0 - 8>>,
      <<8088, 8095, 1, 0 - 8>>, <<8104, 8111, 1, 0 - 8>>, <<8120, 8121, 1, 0 - 8>>,
      <<8122, 8123, 1, 0 - 74>>, <<8124, 8124, 1, 0 - 9>>, <<8136, 8139, 1, 0 - 86>>,
      <<8140, 8140, 1, 0 - 9>>, <<8152, 8153, 1, 0 - 8>>, <<8154, 8155, 1, 0 - 100>>,
      <<8168, 8169, 1, 0 - 8>>, <<8170, 8171, 1, 0 - 112>>, <<8172, 8172, 1, 0 - 7>>,
      <<8184, 8185, 1, 0 - 128>>, <<8186, 8187, 1, 0 - 126>>, <<8188, 8188, 1, 0 - 9>>,
      <<8486, 8486, 1, 0 - 7517>>, <<8490, 8490, 1, 0 - 8383>>, <<8491, 8491, 1, 0 - 8262>>,
      <<8498, 8498, 1, 28>>, <<8544, 8559, 1, 16>>, <<8579, 8579, 1, 1>>,
      <<9398, 9423, 1, 26>>, <<11264, 11311, 1, 48>>, <<11360, 11360, 1, 1>>,
      <<11362, 11362, 1, 0 - 10743>>, <<11363, 11363, 1, 0 - 3814>>, <<11364, 11364, 1, 0 - 10727>>,
      <<11367, 11371, 2, 1>>, <<11373, 11373, 1, 0 - 10780>>, <<11374, 11374, 1, 0 - 10749>>,
      <<11375, 11375, 1, 0 - 10783>>, <<11376, 11376, 1, 0 - 10782>>, <<11378, 11378, 1, 1>>,
      <<11381, 11381, 1, 1>>, <<11390, 11391, 1, 0 - 10815>>, <<11392, 11490, 2, 1>>,
      <<11499, 11501, 2, 1>>, <<11506, 11506, 1, 1>>, <<42560, 42604, 2, 1>>,
      <<42624, 42650, 2, 1>>, <<42786, 42798, 2, 1>>, <<42802, 42862, 2, 1>>,
      <<42873, 42875, 2, 1>>, <<42877, 42877, 1, 0 - 35332>>, <<42878, 42886, 2, 1>>,
      <<42891, 42891, 1, 1>>, <<42893, 42893, 1, 0 - 42280>>, <<42896, 42898, 2, 1>>,
      <<42902, 42920, 2, 1>>, <<42922, 42922, 1, 0 - 42308>>, <<42923, 42923, 1, 0 - 42319>>,
      <<42924, 42924, 1, 0 - 42315>>, <<42925, 42925, 1, 0 - 42305>>, <<42926, 42926, 1, 0 - 42308>>,
      <<42928, 42928, 1, 0 - 42258>>, <<42929, 42929, 1, 0 - 42282>>, <<42930, 42930, 1, 0 - 42261>>,
      <<42931, 42931, 1, 928>>, <<42932, 42946, 2, 1>>, <<42948, 42948, 1, 0 - 48>>,
      <<42949, 42949, 1, 0 - 42307>>, <<42950, 42950, 1, 0 - 35384>>, <<42951, 42953, 2, 1>>,
      <<42960, 42960, 1, 1>>, <<42966, 42968, 2, 1>>, <<42997, 42997, 1, 1>>,
      <<65313, 65338, 1, 32>>, <<66560, 66599, 1, 40>>, <<66736, 66771, 1, 40>>,
      <<66928, 66938, 1, 39>>, <<66940, 66954, 1, 39>>, <<66956, 66962, 1, 39>>,
      <<66964, 66965, 1, 39>>, <<68736, 68786, 1, 64>>, <<71840, 71871, 1, 32>>,
      <<93760, 93791, 1, 32>>, <<125184, 125217, 1, 34>>>>

\* the character str.lower() maps to more than one character
LowerSpecial ==
    <<<<304, <<105, 775>>>>>>

\* str.upper() of one character from U+0080 on, as LowerRuns
UpperRuns ==
    <<<<181, 181, 1, 743>>, <<224, 246, 1, 0 - 32>>, <<248, 254, 1, 0 - 32>>, <<255, 255, 1, 121>>,
      <<257, 303, 2, 0 - 1>>, <<305, 305, 1, 0 - 232>>, <<307, 311, 2, 0 - 1>>, <<314, 328, 2, 0 - 1>>,
      <<331, 375, 2, 0 - 1>>, <<378, 382, 2, 0 - 1>>, <<383, 383, 1, 0 - 300>>, <<384, 384, 1, 195>>,
      <<387, 389, 2, 0 - 1>>, <<392, 392, 1, 0 - 1>>, <<396, 396, 1, 0 - 1>>, <<402, 402, 1, 0 - 1>>,
      <<405, 405, 1, 97>>, <<409, 409, 1, 0 - 1>>, <<410, 410, 1, 163>>, <<414, 414, 1, 130>>,
      <<417, 421, 2, 0 - 1>>, <<424, 424, 1, 0 - 1>>, <<429, 429, 1, 0 - 1>>, <<432, 432, 1, 0 - 1>>,
      <<436, 438, 2, 0 - 1>>, <<441, 441, 1, 0 - 1>>, <<445, 445, 1, 0 - 1>>, <<447, 447, 1, 56>>,
      <<453, 453, 1, 0 - 1>>, <<454, 454, 1, 0 - 2>>, <<456, 456, 1, 0 - 1>>, <<457, 457, 1, 0 - 2>>,
      <<459, 459, 1, 0 - 1>>, <<460, 460, 1, 0 - 2>>, <<462, 476, 2, 0 - 1>>, <<477, 477, 1, 0 - 79>>,
      <<479, 495, 2, 0 - 1>>, <<498, 498, 1, 0 - 1>>, <<499, 499, 1, 0 - 2>>, <<501, 501, 1, 0 - 1>>,
      <<505, 543, 2, 0 - 1>>, <<547, 563, 2, 0 - 1>>, <<572, 572, 1, 0 - 1>>, <<575, 576, 1, 10815>>,
      <<578, 578, 1, 0 - 1>>, <<583, 591, 2, 0 - 1>>, <<592, 592, 1, 10783>>, <<593, 593, 1, 10780>>,
      <<594, 594, 1, 10782>>, <<595, 595, 1, 0 - 210>>, <<596, 596, 1, 0 - 206>>,
      <<598, 599, 1, 0 - 205>>, <<601, 601, 1, 0 - 202>>, <<603, 603, 1, 0 - 203>>,
      <<604, 604, 1, 42319>>, <<608, 608, 1, 0 - 205>>, <<609, 609, 1, 42315>>,
      <<611, 611, 1, 0 - 207>>, <<613, 613, 1, 42280>>, <<614, 614, 1, 42308>>,
      <<616, 616, 1, 0 - 209>>, <<617, 617, 1, 0 - 211>>, <<618, 618, 1, 42308>>,
      <<619, 619, 1, 10743>>, <<620, 620, 1, 42305>>, <<623, 623, 1, 0 - 211>>,
      <<625, 625, 1, 10749>>, <<626, 626, 1, 0 - 213>>, <<629, 629, 1, 0 - 214>>,
      <<637, 637, 1, 10727>>, <<640, 640, 1, 0 - 218>>, <<642, 642, 1, 42307>>,
      <<643, 643, 1, 0 - 218>>, <<647, 647, 1, 42282>>, <<648, 648, 1, 0 - 218>>,
      <<649, 649, 1, 0 - 69>>, <<650, 651, 1, 0 - 217>>, <<652, 652, 1, 0 - 71>>, <<658, 658, 1, 0 - 219>>,
      <<669, 669, 1, 42261>>, <<670, 670, 1, 42258>>, <<837, 837, 1, 84>>, <<881, 883, 2, 0 - 1>>,
      <<887, 887, 1, 0 - 1>>, <<891, 893, 1, 130>>, <<940, 940, 1, 0 - 38>>, <<941, 943, 1, 0 - 37>>,
      <<945, 961, 1, 0 - 32>>, <<962, 962, 1, 0 - 31>>, <<963, 971, 1, 0 - 32>>, <<972, 972, 1, 0 - 64>>,
      <<973, 974, 1, 0 - 63>>, <<976, 976, 1, 0 - 62>>, <<977, 977, 1, 0 - 57>>, <<981, 981, 1, 0 - 47>>,
      <<982, 982, 1, 0 - 54>>, <<983, 983, 1, 0 - 8>>, <<985, 1007, 2, 0 - 1>>, <<1008, 1008, 1, 0 - 86>>,
      <<1009, 1009, 1, 0 - 80>>, <<1010, 1010, 1, 7>>, <<1011, 1011, 1, 0 - 116>>,
      <<1013, 1013, 1, 0 - 96>>, <<1016, 1016, 1, 0 - 1>>, <<1019, 1019, 1, 0 - 1>>,
      <<1072, 1103, 1, 0 - 32>>, <<1104, 1119, 1, 0 - 80>>, <<1121, 1153, 2, 0 - 1>>,
      <<1163, 1215, 2, 0 - 1>>, <<1218, 1230, 2, 0 - 1>>, <<1231, 1231, 1, 0 - 15>>,
      <<1233, 1327, 2, 0 - 1>>, <<1377, 1414, 1, 0 - 48>>, <<4304, 4346, 1, 3008>>,
      <<4349, 4351, 1, 3008>>, <<5112, 5117, 1, 0 - 8>>, <<7296, 7296, 1, 0 - 6254>>,
      <<7297, 7297, 1, 0 - 6253>>, <<7298, 7298, 1, 0 - 6244>>, <<7299, 7300, 1, 0 - 6242>>,
      <<7301, 7301, 1, 0 - 6243>>, <<7302, 7302, 1, 0 - 6236>>, <<7303, 7303, 1, 0 - 6181>>,
      <<7304, 7304, 1, 35266>>, <<7545, 7545, 1, 35332>>, <<7549, 7549, 1, 3814>>,
      <<7566, 7566, 1, 35384>>, <<7681, 7829, 2, 0 - 1>>, <<7835, 7835, 1, 0 - 59>>,
      <<7841, 7935, 2, 0 - 1>>, <<7936, 7943, 1, 8>>, <<7952, 7957, 1, 8>>, <<7968, 7975, 1, 8>>,
      <<7984, 7991, 1, 8>>, <<8000, 8005, 1, 8>>, <<8017, 8023, 2, 8>>, <<8032, 8039, 1, 8>>,
      <<8048, 8049, 1, 74>>, <<8050, 8053, 1, 86>>, <<8054, 8055, 1, 100>>,
      <<8056, 8057, 1, 128>>, <<8058, 8059, 1, 112>>, <<8060, 8061, 1, 126>>,
      <<8112, 8113, 1, 8>>, <<8126, 8126, 1, 0 - 7205>>, <<8144, 8145, 1, 8>>,
      <<8160, 8161, 1, 8>>, <<8165, 8165, 1, 7>>, <<8526, 8526, 1, 0 - 28>>,
      <<8560, 8575, 1, 0 - 16>>, <<8580, 8580, 1, 0 - 1>>, <<9424, 9449, 1, 0 - 26>>,
      <<11312, 11359, 1, 0 - 48>>, <<11361, 11361, 1, 0 - 1>>, <<11365, 11365, 1, 0 - 10795>>,
      <<11366, 11366, 1, 0 - 10792>>, <<11368, 11372, 2, 0 - 1>>, <<11379, 11379, 1, 0 - 1>>,
      <<11382, 11382, 1, 0 - 1>>, <<11393, 11491, 2, 0 - 1>>, <<11500, 11502, 2, 0 - 1>>,
      <<11507, 11507, 1, 0 - 1>>, <<11520, 11557, 1, 0 - 7264>>, <<11559, 11559, 1, 0 - 7264>>,
      <<11565, 11565, 1, 0 - 7264>>, <<42561, 42605, 2, 0 - 1>>, <<42625, 42651, 2, 0 - 1>>,
      <<42787, 42799, 2, 0 - 1>>, <<42803, 42863, 2, 0 - 1>>, <<42874, 42876, 2, 0 - 1>>,
      <<42879, 42887, 2, 0 - 1>>, <<42892, 42892, 1, 0 - 1>>, <<42897, 42899, 2, 0 - 1>>,
      <<42900, 42900, 1, 48>>, <<42903, 42921, 2, 0 - 1>>, <<42933, 42947, 2, 0 - 1>>,
      <<42952, 42954, 2, 0 - 1>>, <<42961, 42961, 1, 0 - 1>>, <<42967, 42969, 2, 0 - 1>>,
      <<42998, 42998, 1, 0 - 1>>, <<43859, 43859, 1, 0 - 928>>, <<43888, 43967, 1, 0 - 38864>>,
      <<65345, 65370, 1, 0 - 32>>, <<66600, 66639, 1, 0 - 40>>, <<66776, 66811, 1, 0 - 40>>,
      <<66967, 66977, 1, 0 - 39>>, <<66979, 66993, 1, 0 - 39>>, <<66995, 67001, 1, 0 - 39>>,
      <<67003, 67004, 1, 0 - 39>>, <<68800, 68850, 1, 0 - 64>>, <<71872, 71903, 1, 0 - 32>>,
      <<93792, 93823, 1, 0 - 32>>, <<125218, 125251, 1, 0 - 34>>>>

\* the characters str.upper() maps to more than one character
UpperSpecial ==
    <<<<223, <<83, 83>>>>, <<329, <<700, 78>>>>, <<496, <<74, 780>>>>,
      <<912, <<921, 776, 769>>>>, <<944, <<933, 776, 769>>>>, <<1415, <<1333, 1362>>>>,
      <<7830, <<72, 817>>>>, <<7831, <<84, 776>>>>, <<7832, <<87, 778>>>>,
      <<7833, <<89, 778>>>>, <<7834, <<65, 702>>>>, <<8016, <<933, 787>>>>,
      <<8018, <<933, 787, 768>>>>, <<8020, <<933, 787, 769>>>>, <<8022, <<933, 787, 834>>>>,
      <<8064, <<7944, 921>>>>, <<8065, <<7945, 921>>>>, <<8066, <<7946, 921>>>>,
      <<8067, <<7947, 921>>>>, <<8068, <<7948, 921>>>>, <<8069, <<7949, 921>>>>,
      <<8070, <<7950, 921>>>>, <<8071, <<7951, 921>>>>, <<8072, <<7944, 921>>>>,
      <<8073, <<7945, 921>>>>, <<8074, <<7946, 921>>>>, <<8075, <<7947, 921>>>>,
      <<8076, <<7948, 921>>>>, <<8077, <<7949, 921>>>>, <<8078, <<7950, 921>>>>,
      <<8079, <<7951, 921>>>>, <<8080, <<7976, 921>>>>, <<8081, <<7977, 921>>>>,
      <<8082, <<7978, 921>>>>, <<8083, <<7979, 921>>>>, <<8084, <<7980, 921>>>>,
      <<8085, <<7981, 921>>>>, <<8086, <<7982, 921>>>>, <<8087, <<7983, 921>>>>,
      <<8088, <<7976, 921>>>>, <<8089, <<7977, 921>>>>, <<8090, <<7978, 921>>>>,
      <<8091, <<7979, 921>>>>, <<8092, <<7980, 921>>>>, <<8093, <<7981, 921>>>>,
      <<8094, <<7982, 921>>>>, <<8095, <<7983, 921>>>>, <<8096, <<8040, 921>>>>,
      <<8097, <<8041, 921>>>>, <<8098, <<8042, 921>>>>, <<8099, <<8043, 921>>>>,
      <<8100, <<8044, 921>>>>, <<8101, <<8045, 921>>>>, <<8102, <<8046, 921>>>>,
      <<8103, <<8047, 921>>>>, <<8104, <<8040, 921>>>>, <<8105, <<8041, 921>>>>,
      <<8106, <<8042, 921>>>>, <<8107, <<8043, 921>>>>, <<8108, <<8044, 921>>>>,
      <<8109, <<8045, 921>>>>, <<8110, <<8046, 921>>>>, <<8111, <<8047, 921>>>>,
      <<8114, <<8122, 921>>>>, <<8115, <<913, 921>>>>, <<8116, <<902, 921>>>>,
      <<8118, <<913, 834>>>>, <<8119, <<913, 834, 921>>>>, <<8124, <<913, 921>>>>,
      <<8130, <<8138, 921>>>>, <<8131, <<919, 921>>>>, <<8132, <<905, 921>>>>,
      <<8134, <<919, 834>>>>, <<8135, <<919, 834, 921>>>>, <<8140, <<919, 921>>>>,
      <<8146, <<921, 776, 768>>>>, <<8147, <<921, 776, 769>>>>, <<8150, <<921, 834>>>>,
      <<8151, <<921, 776, 834>>>>, <<8162, <<933, 776, 768>>>>, <<8163, <<933, 776, 769>>>>,
      <<8164, <<929, 787>>>>, <<8166, <<933, 834>>>>, <<8167, <<933, 776, 834>>>>,
      <<8178, <<8186, 921>>>>, <<8179, <<937, 921>>>>, <<8180, <<911, 921>>>>,
      <<8182, <<937, 834>>>>, <<8183, <<937, 834, 921>>>>, <<8188, <<937, 921>>>>,
      <<64256, <<70, 70>>>>, <<64257, <<70, 73>>>>, <<64258, <<70, 76>>>>,
      <<64259, <<70, 70, 73>>>>, <<64260, <<70, 70, 76>>>>, <<64261, <<83, 84>>>>,
      <<64262, <<83, 84>>>>, <<64275, <<1348, 1350>>>>, <<64276, <<1348, 1333>>>>,
      <<64277, <<1348, 1339>>>>, <<64278, <<1358, 1350>>>>, <<64279, <<1348, 1341>>>>>>

\* the ranges <<first, last>> of the characters with the property Case_Ignorable
CaseIgnorable ==
    <<<<39, 39>>, <<46, 46>>, <<58, 58>>, <<94, 94>>, <<96, 96>>, <<168, 168>>, <<173, 173>>,
      <<175, 175>>, <<180, 180>>, <<183, 184>>, <<688, 879>>, <<884, 885>>, <<890, 890>>,
      <<900, 901>>, <<903, 903>>, <<1155, 1161>>, <<1369, 1369>>, <<1375, 1375>>,
      <<1425, 1469>>, <<1471, 1471>>, <<1473, 1474>>, <<1476, 1477>>, <<1479, 1479>>,
      <<1524, 1524>>, <<1536, 1541>>, <<1552, 1562>>, <<1564, 1564>>, <<1600, 1600>>,
      <<1611, 1631>>, <<1648, 1648>>, <<1750, 1757>>, <<1759, 1768>>, <<1770, 1773>>,
      <<1807, 1807>>, <<1809, 1809>>, <<1840, 1866>>, <<1958, 1968>>, <<2027, 2037>>,
      <<2042, 2042>>, <<2045, 2045>>, <<2070, 2093>>, <<2137, 2139>>, <<2184, 2184>>,
      <<2192, 2193>>, <<2200, 2207>>, <<2249, 2306>>, <<2362, 2362>>, <<2364, 2364>>,
      <<2369, 2376>>, <<2381, 2381>>, <<2385, 2391>>, <<2402, 2403>>, <<2417, 2417>>,
      <<2433, 2433>>, <<2492, 2492>>, <<2497, 2500>>, <<2509, 2509>>, <<2530, 2531>>,
      <<2558, 2558>>, <<2561, 2562>>, <<2620, 2620>>, <<2625, 2626>>, <<2631, 2632>>,
      <<2635, 2637>>, <<2641, 2641>>, <<2672, 2673>>, <<2677, 2677>>, <<2689, 2690>>,
      <<2748, 2748>>, <<2753, 2757>>, <<2759, 2760>>, <<2765, 2765>>, <<2786, 2787>>,
      <<2810, 2815>>, <<2817, 2817>>, <<2876, 2876>>, <<2879, 2879>>, <<2881, 2884>>,
      <<2893, 2893>>, <<2901, 2902>>, <<2914, 2915>>, <<2946, 2946>>, <<3008, 3008>>,
      <<3021, 3021>>, <<3072, 3072>>, <<3076, 3076>>, <<3132, 3132>>, <<3134, 3136>>,
      <<3142, 3144>>, <<3146, 3149>>, <<3157, 3158>>, <<3170, 3171>>, <<3201, 3201>>,
      <<3260, 3260>>, <<3263, 3263>>, <<3270, 3270>>, <<3276, 3277>>, <<3298, 3299>>,
      <<3328, 3329>>, <<3387, 3388>>, <<3393, 3396>>, <<3405, 3405>>, <<3426, 3427>>,
      <<3457, 3457>>, <<3530, 3530>>, <<3538, 3540>>, <<3542, 3542>>, <<3633, 3633>>,
      <<3636, 3642>>, <<3654, 3662>>, <<3761, 3761>>, <<3764, 3772>>, <<3782, 3782>>,
      <<3784, 3789>>, <<3864, 3865>>, <<3893, 3893>>, <<3895, 3895>>, <<3897, 3897>>,
      <<3953, 3966>>, <<3968, 3972>>, <<3974, 3975>>, <<3981, 3991>>, <<3993, 4028>>,
      <<4038, 4038>>, <<4141, 4144>>, <<4146, 4151>>, <<4153, 4154>>, <<4157, 4158>>,
      <<4184, 4185>>, <<4190, 4192>>, <<4209, 4212>>, <<4226, 4226>>, <<4229, 4230>>,
      <<4237, 4237>>, <<4253, 4253>>, <<4348, 4348>>, <<4957, 4959>>, <<5906, 5908>>,
      <<5938, 5939>>, <<5970, 5971>>, <<6002, 6003>>, <<6068, 6069>>, <<6071, 6077>>,
      <<6086, 6086>>, <<6089, 6099>>, <<6103, 6103>>, <<6109, 6109>>, <<6155, 6159>>,
      <<6211, 6211>>, <<6277, 6278>>, <<6313, 6313>>, <<6432, 6434>>, <<6439, 6440>>,
      <<6450, 6450>>, <<6457, 6459>>, <<6679, 6680>>, <<6683, 6683>>, <<6742, 6742>>,
      <<6744, 6750>>, <<6752, 6752>>, <<6754, 6754>>, <<6757, 6764>>, <<6771, 6780>>,
      <<6783, 6783>>, <<6823, 6823>>, <<6832, 6862>>, <<6912, 6915>>, <<6964, 6964>>,
      <<6966, 6970>>, <<6972, 6972>>, <<6978, 6978>>, <<7019, 7027>>, <<7040, 7041>>,
      <<7074, 7077>>, <<7080, 7081>>, <<7083, 7085>>, <<7142, 7142>>, <<7144, 7145>>,
      <<7149, 7149>>, <<7151, 7153>>, <<7212, 7219>>, <<7222, 7223>>, <<7288, 7293>>,
      <<7376, 7378>>, <<7380, 7392>>, <<7394, 7400>>, <<7405, 7405>>, <<7412, 7412>>,
      <<7416, 7417>>, <<7468, 7530>>, <<7544, 7544>>, <<7579, 7679>>, <<8125, 8125>>,
      <<8127, 8129>>, <<8141, 8143>>, <<8157, 8159>>, <<8173, 8175>>, <<8189, 8190>>,
      <<8203, 8207>>, <<8216, 8217>>, <<8228, 8228>>, <<8231, 8231>>, <<8234, 8238>>,
      <<8288, 8292>>, <<8294, 8303>>, <<8305, 8305>>, <<8319, 8319>>, <<8336, 8348>>,
      <<8400, 8432>>, <<11388, 11389>>, <<11503, 11505>>, <<11631, 11631>>, <<11647, 11647>>,
      <<11744, 11775>>, <<11823, 11823>>, <<12293, 12293>>, <<12330, 12333>>, <<12337, 12341>>,
      <<12347, 12347>>, <<12441, 12446>>, <<12540, 12542>>, <<40981, 40981>>, <<42232, 42237>>,
      <<42508, 42508>>, <<42607, 42610>>, <<42612, 42621>>, <<42623, 42623>>, <<42652, 42655>>,
      <<42736, 42737>>, <<42752, 42785>>, <<42864, 42864>>, <<42888, 42890>>, <<42994, 42996>>,
      <<43000, 43001>>, <<43010, 43010>>, <<43014, 43014>>, <<43019, 43019>>, <<43045, 43046>>,
      <<43052, 43052>>, <<43204, 43205>>, <<43232, 43249>>, <<43263, 43263>>, <<43302, 43309>>,
      <<43335, 43345>>, <<43392, 43394>>, <<43443, 43443>>, <<43446, 43449>>, <<43452, 43453>>,
      <<43471, 43471>>, <<43493, 43494>>, <<43561, 43566>>, <<43569, 43570>>, <<43573, 43574>>,
      <<43587, 43587>>, <<43596, 43596>>, <<43632, 43632>>, <<43644, 43644>>, <<43696, 43696>>,
      <<43698, 43700>>, <<43703, 43704>>, <<43710, 43711>>, <<43713, 43713>>, <<43741, 43741>>,
      <<43756, 43757>>, <<43763, 43764>>, <<43766, 43766>>, <<43867, 43871>>, <<43881, 43883>>,
      <<44005, 44005>>, <<44008, 44008>>, <<44013, 44013>>, <<64286, 64286>>, <<64434, 64450>>,
      <<65024, 65039>>, <<65043, 65043>>, <<65056, 65071>>, <<65106, 65106>>, <<65109, 65109>>,
      <<65279, 65279>>, <<65287, 65287>>, <<65294, 65294>>, <<65306, 65306>>, <<65342, 65342>>,
      <<65344, 65344>>, <<65392, 65392>>, <<65438, 65439>>, <<65507, 65507>>, <<65529, 65531>>,
      <<66045, 66045>>, <<66272, 66272>>, <<66422, 66426>>, <<67456, 67461>>, <<67463, 67504>>,
      <<67506, 67514>>, <<68097, 68099>>, <<68101, 68102>>, <<68108, 68111>>, <<68152, 68154>>,
      <<68159, 68159>>, <<68325, 68326>>, <<68900, 68903>>, <<69291, 69292>>, <<69446, 69456>>,
      <<69506, 69509>>, <<69633, 69633>>, <<69688, 69702>>, <<69744, 69744>>, <<69747, 69748>>,
      <<69759, 69761>>, <<69811, 69814>>, <<69817, 69818>>, <<69821, 69821>>, <<69826, 69826>>,
      <<69837, 69837>>, <<69888, 69890>>, <<69927, 69931>>, <<69933, 69940>>, <<70003, 70003>>,
      <<70016, 70017>>, <<70070, 70078>>, <<70089, 70092>>, <<70095, 70095>>, <<70191, 70193>>,
      <<70196, 70196>>, <<70198, 70199>>, <<70206, 70206>>, <<70367, 70367>>, <<70371, 70378>>,
      <<70400, 70401>>, <<70459, 70460>>, <<70464, 70464>>, <<70502, 70508>>, <<70512, 70516>>,
      <<70712, 70719>>, <<70722, 70724>>, <<70726, 70726>>, <<70750, 70750>>, <<70835, 70840>>,
      <<70842, 70842>>, <<70847, 70848>>, <<70850, 70851>>, <<71090, 71093>>, <<71100, 71101>>,
      <<71103, 71104>>, <<71132, 71133>>, <<71219, 71226>>, <<71229, 71229>>, <<71231, 71232>>,
      <<71339, 71339>>, <<71341, 71341>>, <<71344, 71349>>, <<71351, 71351>>, <<71453, 71455>>,
      <<71458, 71461>>, <<71463, 71467>>, <<71727, 71735>>, <<71737, 71738>>, <<71995, 71996>>,
      <<71998, 71998>>, <<72003, 72003>>, <<72148, 72151>>, <<72154, 72155>>, <<72160, 72160>>,
      <<72193, 72202>>, <<72243, 72248>>, <<72251, 72254>>, <<72263, 72263>>, <<72273, 72278>>,
      <<72281, 72283>>, <<72330, 72342>>, <<72344, 72345>>, <<72752, 72758>>, <<72760, 72765>>,
      <<72767, 72767>>, <<72850, 72871>>, <<72874, 72880>>, <<72882, 72883>>, <<72885, 72886>>,
      <<73009, 73014>>, <<73018, 73018>>, <<73020, 73021>>, <<73023, 73029>>, <<73031, 73031>>,
      <<73104, 73105>>, <<73109, 73109>>, <<73111, 73111>>, <<73459, 73460>>, <<78896, 78904>>,
      <<92912, 92916>>, <<92976, 92982>>, <<92992, 92995>>, <<94031, 94031>>, <<94095, 94111>>,
      <<94176, 94177>>, <<94179, 94180>>, <<110576, 110579>>, <<110581, 110587>>,
      <<110589, 110590>>, <<113821, 113822>>, <<113824, 113827>>, <<118528, 118573>>,
      <<118576, 118598>>, <<119143, 119145>>, <<119155, 119170>>, <<119173, 119179>>,
      <<119210, 119213>>, <<119362, 119364>>, <<121344, 121398>>, <<121403, 121452>>,
      <<121461, 121461>>, <<121476, 121476>>, <<121499, 121503>>, <<121505, 121519>>,
      <<122880, 122886>>, <<122888, 122904>>, <<122907, 122913>>, <<122915, 122916>>,
      <<122918, 122922>>, <<123184, 123197>>, <<123566, 123566>>, <<123628, 123631>>,
      <<125136, 125142>>, <<125252, 125259>>, <<127995, 127999>>, <<917505, 917505>>,
      <<917536, 917631>>, <<917760, 917999>>>>

\* the ranges <<first, last>> of the characters with the property Cased
Cased ==
    <<<<65, 90>>, <<97, 122>>, <<170, 170>>, <<181, 181>>, <<186, 186>>, <<192, 214>>,
      <<216, 246>>, <<248, 442>>, <<444, 447>>, <<452, 659>>, <<661, 696>>, <<704, 705>>,
      <<736, 740>>, <<837, 837>>, <<880, 883>>, <<886, 887>>, <<890, 893>>, <<895, 895>>,
      <<902, 902>>, <<904, 906>>, <<908, 908>>, <<910, 929>>, <<931, 1013>>, <<1015, 1153>>,
      <<1162, 1327>>, <<1329, 1366>>, <<1376, 1416>>, <<4256, 4293>>, <<4295, 4295>>,
      <<4301, 4301>>, <<4304, 4346>>, <<4349, 4351>>, <<5024, 5109>>, <<5112, 5117>>,
      <<7296, 7304>>, <<7312, 7354>>, <<7357, 7359>>, <<7424, 7615>>, <<7680, 7957>>,
      <<7960, 7965>>, <<7968, 8005>>, <<8008, 8013>>, <<8016, 8023>>, <<8025, 8025>>,
      <<8027, 8027>>, <<8029, 8029>>, <<8031, 8061>>, <<8064, 8116>>, <<8118, 8124>>,
      <<8126, 8126>>, <<8130, 8132>>, <<8134, 8140>>, <<8144, 8147>>, <<8150, 8155>>,
      <<8160, 8172>>, <<8178, 8180>>, <<8182, 8188>>, <<8305, 8305>>, <<8319, 8319>>,
      <<8336, 8348>>, <<8450, 8450>>, <<8455, 8455>>, <<8458, 8467>>, <<8469, 8469>>,
      <<8473, 8477>>, <<8484, 8484>>, <<8486, 8486>>, <<8488, 8488>>, <<8490, 8493>>,
      <<8495, 8500>>, <<8505, 8505>>, <<8508, 8511>>, <<8517, 8521>>, <<8526, 8526>>,
      <<8544, 8575>>, <<8579, 8580>>, <<9398, 9449>>, <<11264, 11492>>, <<11499, 11502>>,
      <<11506, 11507>>, <<11520, 11557>>, <<11559, 11559>>, <<11565, 11565>>, <<42560, 42605>>,
      <<42624, 42653>>, <<42786, 42887>>, <<42891, 42894>>, <<42896, 42954>>, <<42960, 42961>>,
      <<42963, 42963>>, <<42965, 42969>>, <<42997, 42998>>, <<43000, 43002>>, <<43824, 43866>>,
      <<43868, 43880>>, <<43888, 43967>>, <<64256, 64262>>, <<64275, 64279>>, <<65313, 65338>>,
      <<65345, 65370>>, <<66560, 66639>>, <<66736, 66771>>, <<66776, 66811>>, <<66928, 66938>>,
      <<66940, 66954>>, <<66956, 66962>>, <<66964, 66965>>, <<66967, 66977>>, <<66979, 66993>>,
      <<66995, 67001>>, <<67003, 67004>>, <<67456, 67456>>, <<67459, 67461>>, <<67463, 67504>>,
      <<67506, 67514>>, <<68736, 68786>>, <<68800, 68850>>, <<71840, 71903>>, <<93760, 93823>>,
      <<119808, 119892>>, <<119894, 119964>>, <<119966, 119967>>, <<119970, 119970>>,
      <<119973, 119974>>, <<119977, 119980>>, <<119982, 119993>>, <<119995, 119995>>,
      <<119997, 120003>>, <<120005, 120069>>, <<120071, 120074>>, <<120077, 120084>>,
      <<120086, 120092>>, <<120094, 120121>>, <<120123, 120126>>, <<120128, 120132>>,
      <<120134, 120134>>, <<120138, 120144>>, <<120146, 120485>>, <<120488, 120512>>,
      <<120514, 120538>>, <<120540, 120570>>, <<120572, 120596>>, <<120598, 120628>>,
      <<120630, 120654>>, <<120656, 120686>>, <<120688, 120712>>, <<120714, 120744>>,
      <<120746, 120770>>, <<120772, 120779>>, <<122624, 122633>>, <<122635, 122654>>,
      <<125184, 125251>>, <<127280, 127305>>, <<127312, 127337>>, <<127344, 127369>>>>

\* str.lower() of the capital sigma text[i]: the final form behind a cased
\* letter and not before one, characters that case ignores skipped
FinalSigma(text, i) ==
    LET before == {j \in 1..(i - 1) : ~InRanges(CaseIgnorable, text[j])}
        after == {j \in (i + 1)..Len(text) : ~InRanges(CaseIgnorable, text[j])}
    IN  /\ before # {}
        /\ InRanges(Cased, text[CHOOSE j \in before : \A k \in before : k <= j])
        /\ \/ after = {}
           \/ ~InRanges(Cased, text[CHOOSE j \in after : \A k \in after : j <= k])

\* the characters str.lower() gives for text[i]
LowerChar(text, i) ==
    IF text[i] < 128 THEN <<IF text[i] \in 65..90 THEN text[i] + 32 ELSE text[i]>>
    ELSE IF text[i] = 931 THEN <<IF FinalSigma(text, i) THEN 962 ELSE 963>>
    ELSE CaseMapped(LowerRuns, LowerSpecial, text[i])

\* the characters str.upper() gives for c
UpperChar(c) ==
    IF c < 128 THEN <<IF c \in 97..122 THEN c - 32 ELSE c>>
    ELSE CaseMapped(UpperRuns, UpperSpecial, c)

\* the pieces joined in order
Join(pieces) ==
    IF \A n \in 1..Len(pieces) : Len(pieces[n]) = 1
    THEN [n \in 1..Len(pieces) |-> pieces[n][1]]
    ELSE Concat(pieces)

\* str.lower()
Lower(text) ==
    CHOOSE low \in {Join([i \in 1..Len(t) |-> LowerChar(t, i)]) : t \in {text}} : TRUE

\* str.upper()
Upper(text) ==
    CHOOSE up \in {Join([i \in 1..Len(t) |-> UpperChar(t[i])]) : t \in {text}} : TRUE

\* the characters str.strip() removes (str.isspace)
Whitespace ==
    (9..13) \cup (28..32) \cup {133, 160, 5760} \cup (8192..8202)
    \cup {8232, 8233, 8239, 8287, 12288}

\* str.strip()
Strip(cs) ==
    CHOOSE stripped \in
        {IF kept = {} THEN <<>>
         ELSE SubSeq(cs, CHOOSE n \in kept : \A k \in kept : n <= k,
                         CHOOSE n \in kept : \A k \in kept : k <= n)
         : kept \in {{n \in 1..Len(cs) : cs[n] \notin Whitespace}}} : TRUE

\* `phrase in text`: phrase is a substring of text
HasPhrase(text, phrase) ==
    \E i \in 1..(Len(text) - Len(phrase) + 1) :
        \A k \in 1..Len(phrase) : text[i + k - 1] = phrase[k]

----------------------------------------------------------------------------
\* sha256_bytes, run_cmd, classify_error

\* The digest of a byte string; distinct inputs give distinct digests.
sha256_bytes(b) == [sha256 |-> b]

\* The exit status run_cmd reports for an expired timeout
TimeoutCode == 124

OrEmpty(o) == IF o = None THEN <<>> ELSE o[1]

\* run_cmd on a child process whose behaviour is proc:
\*   starts      subprocess.run can execute the program; if it cannot, it
\*               raises OSError (PermissionError), which run_cmd lets through
\*   timed_out   the child is still running after timeout_s seconds
\*   returncode, stdout, stderr
\*               what subprocess.run returns, or what TimeoutExpired carries
\*               (stdout and stderr Optional)
\*   ms          the elapsed time measured around a child that exits
\*   lag         the time measured beyond the timeout until TimeoutExpired
\*               is caught
\* The result is [raised, value]: value is the tuple (code, stdout, stderr, ms).
run_cmd(proc, timeout_s) ==
    IF ~proc.starts
    THEN [raised |-> TRUE, value |-> [code |-> 0, out |-> <<>>, err |-> <<>>, ms |-> 0]]
    ELSE IF proc.timed_out
    THEN [raised |-> FALSE,
          value |-> [code |-> TimeoutCode, out |-> OrEmpty(proc.stdout),
                     err |-> OrEmpty(proc.stderr), ms |-> timeout_s * 1000 + proc.lag]]
    ELSE [raised |-> FALSE,
          value |-> [code |-> proc.returncode, out |-> OrEmpty(proc.stdout),
                     err |-> OrEmpty(proc.stderr), ms |-> proc.ms]]

\* the substrings classify_error looks for, lines 93-97
Phrase ==
    [encrypted |-> Text(<<"e", "n", "c", "r", "y", "p", "t", "e", "d">>),
     encryption |-> Text(<<"e", "n", "c", "r", "y", "p", "t", "i", "o", "n">>),
     distribution |-> Text(<<"d", "i", "s", "t", "r", "i", "b", "u", "t", "i", "o", "n">>),
     size_limit |-> Text(<<"s", "i", "z", "e", " ", "l", "i", "m", "i", "t">>),
     sizelimit |-> Text(<<"s", "i", "z", "e", "l", "i", "m", "i", "t">>),
     limit_exceeded |-> Text(<<"l", "i", "m", "i", "t", " ", "e", "x", "c", "e", "e", "d", "e",
         "d">>)]

classify_error(stderr, stdout, code) ==
    CHOOSE kind \in
        {IF HasPhrase(text, Phrase.encrypted) \/ HasPhrase(text, Phrase.encryption)
         THEN "encrypted"
         ELSE IF HasPhrase(text, Phrase.distribution)
         THEN "distribution"
         ELSE IF HasPhrase(text, Phrase.size_limit) \/ HasPhrase(text, Phrase.sizelimit)
                 \/ HasPhrase(text, Phrase.limit_exceeded)
         THEN "size_limit"
         ELSE IF code = TimeoutCode
         THEN "timeout"
         ELSE "parse_error"
         : text \in {Lower(Decode(stderr \o Text(<<"\n">>) \o stdout))}} : TRUE

----------------------------------------------------------------------------
\* percentiles

RECURSIVE Insert(_, _)
Insert(x, s) ==
    IF s = <<>> THEN <<x>>
    ELSE IF x <= Head(s) THEN <<x>> \o s
    ELSE <<Head(s)>> \o Insert(x, Tail(s))

RECURSIVE sorted(_)
sorted(values) == IF values = <<>> THEN <<>> ELSE Insert(Head(values), sorted(Tail(values)))

\* pick with int() in place of round()
pick_truncating(v, p) ==
    LET idx == Max2(0, Min2(Len(v) - 1, (p * (Len(v) - 1)) \div 100))
    IN  v[idx + 1]

\* pick(p) over the sorted list v, p a fraction of 100; idx is 0-based
pick(v, p) ==
    LET idx == Max2(0, Min2(Len(v) - 1, RoundHalfEven(p * (Len(v) - 1), 100)))
    IN  v[idx + 1]

percentiles(values) ==
    IF values = <<>>
    THEN [p50 |-> 0, p95 |-> 0, p99 |-> 0]
    ELSE LET v == sorted(values)
         IN  [p50 |-> pick(v, 50), p95 |-> pick(v, 95), p99 |-> pick(v, 99)]

----------------------------------------------------------------------------
\* load_category_map, find_corpus_files, rate

\* m[rel] = v on an insertion-ordered dict kept as a list of <<key, value>>
DictPut(m, k, v) ==
    IF \E j \in 1..Len(m) : m[j][1] = k
    THEN [j \in 1..Len(m) |-> IF m[j][1] = k THEN <<k, v>> ELSE m[j]]
    ELSE Append(m, <<k, v>>)

\* m.get(k, default)
DictGetOr(m, k, default) ==
    IF \E j \in 1..Len(m) : m[j][1] = k
    THEN (m[CHOOSE j \in 1..Len(m) : m[j][1] = k])[2]
    ELSE default

DictKeys(m) == [j \in 1..Len(m) |-> m[j][1]]

\* lines 130-138: the category stored for one item
NormalizeCategory(cat) ==
    IF cat.type = "string"
    THEN CHOOSE stored \in
            {IF labels # {} THEN Some(CHOOSE k \in labels : TRUE) ELSE None
             : labels \in {{k \in {"A", "B", "C"} : cat_u = <<Ord[k]>>}
                           : cat_u \in {Upper(Strip(cat.chars))}}} : TRUE
    ELSE None

\* lines 126-138: the loop over items; an item that is no JSON object has no .get
RECURSIVE LoadItems(_, _)
LoadItems(items, m) ==
    IF items = <<>> THEN [raised |-> FALSE, value |-> m]
    ELSE LET it == Head(items)
         IN  IF it.type # "object" THEN [raised |-> TRUE, value |-> <<>>]
             ELSE IF it.relpath = None \/ it.relpath = Some("")
             THEN LoadItems(Tail(items), m)
             ELSE LoadItems(Tail(items),
                            DictPut(m, it.relpath[1], NormalizeCategory(it.category)))

\* The result of load_category_map: the mapping, or raised = TRUE when an
\* exception leaves the function (AttributeError / TypeError outside the try).
\* Line 124, data.get("items") or []: a falsy items value (absent, null, false,
\* 0, "", {}, []) is replaced by the empty list; a truthy value that is no list
\* either cannot be iterated (number, true) or yields strings (the characters
\* of a string, the keys of an object), which have no .get.
load_category_map(mf) ==
    IF ~mf.exists THEN [raised |-> FALSE, value |-> <<>>]
    ELSE IF ~mf.parsable THEN [raised |-> FALSE, value |-> <<>>]
    ELSE IF mf.data.type # "object" THEN [raised |-> TRUE, value |-> <<>>]
    ELSE IF ~mf.data.items.truthy THEN LoadItems(<<>>, <<>>)
    ELSE IF mf.data.items.type # "array" THEN [raised |-> TRUE, value |-> <<>>]
    ELSE LoadItems(mf.data.items.elems, <<>>)

\* find_corpus_files: the relpaths, manifest order first, else the sorted scan
find_corpus_files(on_disk, cmap) ==
    LET listed == SelectSeq(DictKeys(cmap), LAMBDA rel : rel \in on_disk)
    IN  IF cmap # <<>> /\ listed # <<>> THEN listed
        ELSE SelectSeq(Names, LAMBDA rel : rel \in on_disk)

rate(ok, total) == IF total # 0 THEN <<ok, total>> ELSE <<0, 1>>

----------------------------------------------------------------------------
\* json.loads of a child's output, line 257

\* JSON values as Python holds them; a dict is the ordered list of its
\* <<key, value>> pairs, a number is kept as written
JNull == [type |-> "null"]

JBool(b) == [type |-> "boolean", bool |-> b]

JNumber(lexeme) == [type |-> "number", lexeme |-> lexeme]

JString(cs) == [type |-> "string", chars |-> cs]

JArray(elems) == [type |-> "array", elems |-> elems]

JObject(members) == [type |-> "object", members |-> members]

\* the result of a scanning step: the value and the index behind it
Rejected == [ok |-> FALSE, v |-> JNull, i |-> 0]

Parsed(v, i) == [ok |-> TRUE, v |-> v, i |-> i]

StartsWith(s, i, word) ==
    /\ i + Len(word) - 1 <= Len(s)
    /\ \A k \in 1..Len(word) : s[i + k - 1] = word[k]

\* json.decoder.WHITESPACE skipped from index i on
SkipWs(s, i) == Span(s, i, {Ord[" "], Ord["\t"], Ord["\n"], Ord["\r"]})

Digits == 48..57

\* json.scanner.NUMBER_RE, (-?(?:0|[1-9]\d*))(\.\d+)?([eE][-+]?\d+)? matched
\* at i: end is the index behind the match, 0 without a match; digits is
\* the number of digits of the integer part; integer tells that the match has
\* neither fraction nor exponent
ScanNumber(s, i) ==
    LET int_from == IF At(s, i) = Ord["-"] THEN i + 1 ELSE i
        int_end == IF At(s, int_from) = Ord["0"] THEN int_from + 1
                   ELSE IF At(s, int_from) \in Digits THEN Span(s, int_from, Digits)
                   ELSE 0
        frac_end == IF int_end # 0 /\ At(s, int_end) = Ord["."] /\ At(s, int_end + 1) \in Digits
                    THEN Span(s, int_end + 1, Digits)
                    ELSE int_end
        exp_from == IF At(s, frac_end + 1) \in {Ord["+"], Ord["-"]}
                    THEN frac_end + 2 ELSE frac_end + 1
        end == IF frac_end # 0 /\ At(s, frac_end) \in {Ord["e"], Ord["E"]}
                  /\ At(s, exp_from) \in Digits
               THEN Span(s, exp_from, Digits)
               ELSE frac_end
    IN  [end |-> end, digits |-> int_end - int_from, integer |-> end = int_end]

\* sys.get_int_max_str_digits(): int() of a longer decimal raises ValueError
IntMaxStrDigits == 4300

\* int(c, 16), or -1 when c is no hex digit
HexValue(c) ==
    IF c \in 48..57 THEN c - 48
    ELSE IF c \in 65..70 THEN c - 55
    ELSE IF c \in 97..102 THEN c - 87
    ELSE 0 - 1

\* the number the four hex digits from s[i] on spell, -1 when one of them is
\* no hex digit
Hex4(s, i) ==
    IF \A k \in 0..3 : HexValue(At(s, i + k)) >= 0
    THEN 4096 * HexValue(s[i]) + 256 * HexValue(s[i + 1]) + 16 * HexValue(s[i + 2])
         + HexValue(s[i + 3])
    ELSE 0 - 1

\* json.decoder.BACKSLASH
Escapes ==
    [e \in {Ord[c] : c \in {"\"", "\\", "/", "b", "f", "n", "r", "t"}} |->
        CASE e = Ord["b"] -> 8
          [] e = Ord["f"] -> 12
          [] e = Ord["n"] -> 10
          [] e = Ord["r"] -> 13
          [] e = Ord["t"] -> 9
          [] OTHER -> e]

\* the first index from i on that holds a quote, a backslash or a control
\* character (below U+0020), Len(s) + 1 when there is none
NextSpecial(s, i) ==
    IF i > Len(s) THEN i
    ELSE CHOOSE j \in i..(Len(s) + 1) :
            /\ j = Len(s) + 1 \/ s[j] < 32 \/ s[j] \in {Ord["\""], Ord["\\"]}
            /\ \A k \in i..(j - 1) : s[k] >= 32 /\ s[k] \notin {Ord["\""], Ord["\\"]}

\* json.decoder.scanstring from the index behind the opening quote; acc holds
\* the characters decoded so far. \uXXXX gives the character XXXX; a high
\* surrogate (D800-DBFF) with a \uXXXX of a low one (DC00-DFFF) behind it
\* gives the one character the pair encodes
RECURSIVE ScanString(_, _, _)
ScanString(s, i, acc) ==
    CHOOSE r \in
        {LET chunk == acc \o SubSeq(s, i, j - 1)
             e == At(s, j + 1)
             high == Hex4(s, j + 2)
             low == IF At(s, j + 6) = Ord["\\"] /\ At(s, j + 7) = Ord["u"]
                    THEN Hex4(s, j + 8) ELSE 0 - 1
         IN  IF At(s, j) = Ord["\""] THEN Parsed(JString(chunk), j + 1)
             ELSE IF At(s, j) # Ord["\\"] THEN Rejected
             ELSE IF e = Ord["u"]
             THEN IF high < 0 THEN Rejected
                  ELSE IF high \in 55296..56319 /\ low \in 56320..57343
                  THEN ScanString(s, j + 12,
                                  Append(chunk, 65536 + (high - 55296) * 1024 + (low - 56320)))
                  ELSE ScanString(s, j + 6, Append(chunk, high))
             ELSE IF e \in DOMAIN Escapes
             THEN ScanString(s, j + 2, Append(chunk, Escapes[e]))
             ELSE Rejected
         : j \in {NextSpecial(s, i)}} : TRUE

\* the literals the scanner knows besides strings and numbers
Literal ==
    [null |-> Text(<<"n", "u", "l", "l">>),
     true |-> Text(<<"t", "r", "u", "e">>),
     false |-> Text(<<"f", "a", "l", "s", "e">>),
     NaN |-> Text(<<"N", "a", "N">>),
     Infinity |-> Text(<<"I", "n", "f", "i", "n", "i", "t", "y">>),
     MinusInfinity |-> Text(<<"-", "I", "n", "f", "i", "n", "i", "t", "y">>)]

\* json.scanner.py_make_scanner._scan_once at index i, with JSONObject and
\* JSONArray of json.decoder
RECURSIVE ParseValue(_, _), ParseMembers(_, _, _), ParseElements(_, _, _)
ParseValue(s, i) ==
    LET c == At(s, i)
    IN  IF c = Ord["\""] THEN ScanString(s, i + 1, <<>>)
        ELSE IF c = Ord["{"]
        THEN CHOOSE r \in
                {IF At(s, open) = Ord["}"] THEN Parsed(JObject(<<>>), open + 1)
                 ELSE ParseMembers(s, open, <<>>)
                 : open \in {SkipWs(s, i + 1)}} : TRUE
        ELSE IF c = Ord["["]
        THEN CHOOSE r \in
                {IF At(s, open) = Ord["]"] THEN Parsed(JArray(<<>>), open + 1)
                 ELSE ParseElements(s, open, <<>>)
                 : open \in {SkipWs(s, i + 1)}} : TRUE
        ELSE IF StartsWith(s, i, Literal.null) THEN Parsed(JNull, i + 4)
        ELSE IF StartsWith(s, i, Literal.true) THEN Parsed(JBool(TRUE), i + 4)
        ELSE IF StartsWith(s, i, Literal.false) THEN Parsed(JBool(FALSE), i + 5)
        ELSE CHOOSE r \in
                {IF n.end # 0
                 THEN IF n.integer /\ n.digits > IntMaxStrDigits THEN Rejected
                      ELSE Parsed(JNumber(SubSeq(s, i, n.end - 1)), n.end)
                 ELSE IF StartsWith(s, i, Literal.NaN) THEN Parsed(JNumber(Literal.NaN), i + 3)
                 ELSE IF StartsWith(s, i, Literal.Infinity)
                 THEN Parsed(JNumber(Literal.Infinity), i + 8)
                 ELSE IF StartsWith(s, i, Literal.MinusInfinity)
                 THEN Parsed(JNumber(Literal.MinusInfinity), i + 9)
                 ELSE Rejected
                 : n \in {ScanNumber(s, i)}} : TRUE

\* the pairs of an object from the opening quote of a key on; a repeated key
\* keeps its place and takes the last value
ParseMembers(s, i, acc) ==
    IF At(s, i) # Ord["\""] THEN Rejected
    ELSE CHOOSE r \in
            {IF ~key.ok \/ At(s, SkipWs(s, key.i)) # Ord[":"] THEN Rejected
             ELSE CHOOSE q \in
                    {IF ~value.ok THEN Rejected
                     ELSE CHOOSE p \in
                            {IF At(s, behind) = Ord["}"] THEN Parsed(JObject(put), behind + 1)
                             ELSE IF At(s, behind) = Ord[","]
                             THEN ParseMembers(s, SkipWs(s, behind + 1), put)
                             ELSE Rejected
                             : behind \in {SkipWs(s, value.i)},
                               put \in {DictPut(acc, key.v.chars, value.v)}} : TRUE
                     : value \in {ParseValue(s, SkipWs(s, SkipWs(s, key.i) + 1))}} : TRUE
             : key \in {ScanString(s, i + 1, <<>>)}} : TRUE

\* the elements of an array from its first value on
ParseElements(s, i, acc) ==
    CHOOSE r \in
        {IF ~value.ok THEN Rejected
         ELSE CHOOSE q \in
                {IF At(s, behind) = Ord["]"] THEN Parsed(JArray(seen), behind + 1)
                 ELSE IF At(s, behind) = Ord[","]
                 THEN ParseElements(s, SkipWs(s, behind + 1), seen)
                 ELSE Rejected
                 : behind \in {SkipWs(s, value.i)}, seen \in {Append(acc, value.v)}} : TRUE
         : value \in {ParseValue(s, i)}} : TRUE

\* the containers json.loads of line 257 can enter one inside the other:
\* sys.getrecursionlimit() less the frames in use; one more raises RecursionError
MaxNesting == 994

\* the largest number of containers open at one place of s. A quote behind an
\* even number of backslashes opens or closes a string, and a bracket or brace
\* outside the strings opens or closes a container.
Nesting(s) ==
    LET backslashes(k) ==
            k - 1 - CHOOSE j \in 0..(k - 1) :
                        /\ j = 0 \/ s[j] # Ord["\\"]
                        /\ \A m \in (j + 1)..(k - 1) : s[m] = Ord["\\"]
        among(quotes, cs) ==
            {k \in 1..Len(s) : s[k] \in cs /\ Cardinality({q \in quotes : q < k}) % 2 = 0}
        deepest(opened, closed) ==
            CHOOSE d \in
                {CHOOSE n \in depths : \A m \in depths : m <= n
                 : depths \in {{0} \union
                     {Cardinality({o \in opened : o <= k}) - Cardinality({c \in closed : c <= k})
                      : k \in opened}}} : TRUE
    IN  CHOOSE d \in
            {CHOOSE n \in
                {deepest(opened, closed)
                 : opened \in {among(quotes, {Ord["{"], Ord["["]})},
                   closed \in {among(quotes, {Ord["}"], Ord["]"]})}} : TRUE
             : quotes \in {{k \in 1..Len(s) : s[k] = Ord["\""] /\ backslashes(k) % 2 = 0}}} : TRUE

\* json.loads(text): one value between optional whitespace; ok = FALSE where
\* json.loads raises. A text holds fewer containers than characters.
json_loads(text) ==
    CHOOSE r \in
        {IF Len(s) > MaxNesting /\ Nesting(s) > MaxNesting THEN Rejected
         ELSE CHOOSE q \in
                {IF v.ok /\ SkipWs(s, v.i) = Len(s) + 1 THEN v ELSE Rejected
                 : v \in {ParseValue(s, SkipWs(s, 1))}} : TRUE
         : s \in {text}} : TRUE

----------------------------------------------------------------------------
\* The loop body of main(): lines 218-298

\* the members of x as len(x) counts and `for ... in x` yields them: the
\* elements of a list, the characters of a string, the keys of a dict;
\* raised for a value that has neither length nor iteration
Iterate(x) ==
    CASE x.type = "array" -> [raised |-> FALSE, elems |-> x.elems]
      [] x.type = "string" ->
            [raised |-> FALSE, elems |-> [n \in 1..Len(x.chars) |-> JString(<<x.chars[n]>>)]]
      [] x.type = "object" ->
            [raised |-> FALSE,
             elems |-> [n \in 1..Len(x.members) |-> JString(x.members[n][1])]]
      [] OTHER -> [raised |-> TRUE, elems |-> <<>>]

\* the keys and the block types of lines 258-266
Word ==
    [sections |-> Text(<<"s", "e", "c", "t", "i", "o", "n", "s">>),
     content |-> Text(<<"c", "o", "n", "t", "e", "n", "t">>),
     type |-> Text(<<"t", "y", "p", "e">>),
     paragraph |-> Text(<<"p", "a", "r", "a", "g", "r", "a", "p", "h">>),
     table |-> Text(<<"t", "a", "b", "l", "e">>)]

NoCounts == [raised |-> TRUE, paragraphs |-> 0, tables |-> 0]

\* lines 262-266: the blocks of one section; a block that is no dict has no .get
RECURSIVE CountBlocks(_, _, _)
CountBlocks(blocks, paragraphs, tables) ==
    IF blocks = <<>> THEN [raised |-> FALSE, paragraphs |-> paragraphs, tables |-> tables]
    ELSE LET block == Head(blocks)
             type == DictGetOr(block.members, Word.type, JNull)
         IN  IF block.type # "object" THEN NoCounts
             ELSE IF type = JString(Word.paragraph)
             THEN CountBlocks(Tail(blocks), paragraphs + 1, tables)
             ELSE IF type = JString(Word.table)
             THEN CountBlocks(Tail(blocks), paragraphs, tables + 1)
             ELSE CountBlocks(Tail(blocks), paragraphs, tables)

\* lines 261-266: the loop over the sections
RECURSIVE CountSections(_, _, _)
CountSections(secs, paragraphs, tables) ==
    IF secs = <<>> THEN [raised |-> FALSE, paragraphs |-> paragraphs, tables |-> tables]
    ELSE IF Head(secs).type # "object" THEN NoCounts
    ELSE CHOOSE r \in
            {IF content.raised THEN NoCounts
             ELSE CHOOSE q \in
                    {IF counted.raised THEN NoCounts
                     ELSE CountSections(Tail(secs), counted.paragraphs, counted.tables)
                     : counted \in {CountBlocks(content.elems, paragraphs, tables)}} : TRUE
             : content \in {Iterate(DictGetOr(Head(secs).members, Word.content, JArray(<<>>)))}} : TRUE

\* lines 256-269: Some(<<sections, paragraphs, tables>>), or None where the
\* try block raises
doc_stats(out_a) ==
    CHOOSE r \in
        {IF ~doc_obj.ok THEN None
         ELSE IF doc_obj.v.type # "object" THEN None
         ELSE CHOOSE q \in
                {IF sections.raised THEN None
                 ELSE CHOOSE p \in
                        {IF counted.raised THEN None
                         ELSE Some(<<Len(sections.elems), counted.paragraphs, counted.tables>>)
                         : counted \in {CountSections(sections.elems, 0, 0)}} : TRUE
                 : sections \in {Iterate(DictGetOr(doc_obj.v.members, Word.sections,
                                                   JArray(<<>>)))}} : TRUE
         : doc_obj \in {json_loads(Decode(out_a))}} : TRUE

\* a run_cmd result not yet bound in this iteration
Unbound == [code |-> 0 - 1, out |-> <<>>, err |-> <<>>, ms |-> 0]

\* lines 229-232
MdDefault == [code |-> 0, out |-> <<>>, err |-> <<>>, ms |-> 0]

NoIteration ==
    [rel |-> "", size |-> 0, cat |-> None,
     i |-> Unbound, a |-> Unbound, b |-> Unbound, m1 |-> Unbound, m2 |-> Unbound,
     md_sha_a |-> None, md_sha_b |-> None, md_det |-> None]

\* line 244 without the second json run
file_ok_ignoring_b(c, check_markdown) ==
    (c.i.code = 0) /\ (c.a.code = 0)
    /\ (~check_markdown \/ ((c.m1.code = 0) /\ (c.m2.code = 0)))

\* line 244
file_ok(c, check_markdown) ==
    (c.i.code = 0) /\ (c.a.code = 0) /\ (c.b.code = 0)
    /\ (~check_markdown \/ ((c.m1.code = 0) /\ (c.m2.code = 0)))

\* Python's `x or y` on exit statuses
OrInt(x, y) == IF x # 0 THEN x ELSE y

\* line 274: the exit status handed to classify_error
dominant_code(c) == OrInt(OrInt(OrInt(c.a.code, c.i.code), c.m1.code), c.m2.code)

\* lines 271-275
file_error(c) ==
    classify_error(c.i.err \o c.a.err \o c.b.err \o c.m1.err \o c.m2.err,
                   c.i.out \o c.a.out \o c.b.out \o c.m1.out \o c.m2.out,
                   dominant_code(c))

\* lines 239-242: the markdown hashes and verdict after the second markdown run
md_hashes(m1, m2) ==
    IF m1.code = 0 /\ m2.code = 0
    THEN [md_sha_a |-> Some(sha256_bytes(m1.out)), md_sha_b |-> Some(sha256_bytes(m2.out)),
          md_det |-> Some(sha256_bytes(m1.out) = sha256_bytes(m2.out))]
    ELSE [md_sha_a |-> None, md_sha_b |-> None, md_det |-> None]

\* lines 244-294: the RunResult of the iteration whose locals are c
run_result(c, check_markdown) ==
    CHOOSE r \in
        {[relpath |-> c.rel,
          category |-> c.cat,
          size_bytes |-> c.size,
          ok |-> ok,
          error |-> IF ok THEN None ELSE Some(file_error(c)),
          timing_ms |-> c.i.ms + c.a.ms + c.b.ms + c.m1.ms + c.m2.ms,
          out_sha256_a |-> IF ok THEN Some(sha256_bytes(c.a.out)) ELSE None,
          out_sha256_b |-> IF ok THEN Some(sha256_bytes(c.b.out)) ELSE None,
          deterministic |-> IF ok THEN Some(sha256_bytes(c.a.out) = sha256_bytes(c.b.out))
                            ELSE None,
          md_sha256_a |-> c.md_sha_a,
          md_sha256_b |-> c.md_sha_b,
          md_deterministic |-> c.md_det,
          sections |-> IF stats # None THEN Some(stats[1][1]) ELSE None,
          paragraphs |-> IF stats # None THEN Some(stats[1][2]) ELSE None,
          tables |-> IF stats # None THEN Some(stats[1][3]) ELSE None]
         : ok \in {file_ok(c, check_markdown)},
           stats \in {IF file_ok(c, check_markdown) THEN doc_stats(c.a.out) ELSE None}} : TRUE

\* p.stat().st_size
FileSize(rel) == 512 * NameIndex(rel)

----------------------------------------------------------------------------
\* Aggregation and gate: lines 300-390

Buckets == {"A", "B", "C", "_"}

\* line 319
bucket(r) == IF r.category \in {Some("A"), Some("B"), Some("C")} THEN r.category[1] ELSE "_"

\* the indices of the results that satisfy a condition: sum(1 for r in results if ...)
Indices(rs) == 1..Len(rs)

\* lines 316-322
cat_totals_of(rs) ==
    [k \in Buckets |-> Cardinality({n \in Indices(rs) : bucket(rs[n]) = k})]

cat_ok_of(rs) ==
    [k \in Buckets |-> Cardinality({n \in Indices(rs) : bucket(rs[n]) = k /\ rs[n].ok})]

\* line 324
cat_rates_of(rs) ==
    [k \in Buckets |-> Round4(rate(cat_ok_of(rs)[k], cat_totals_of(rs)[k]))]

\* lines 302-303
ok_count_of(rs) == Cardinality({n \in Indices(rs) : rs[n].ok})

det_count_of(rs) ==
    Cardinality({n \in Indices(rs) : rs[n].ok /\ rs[n].deterministic = Some(TRUE)})

\* line 305
det_rate_of(rs) == rate(det_count_of(rs), ok_count_of(rs))

\* line 306
timings_of(rs) ==
    LET oks == SelectSeq(rs, LAMBDA r : r.ok)
    IN  [n \in 1..Len(oks) |-> oks[n].timing_ms]

\* lines 309-313: a dict over the keys that occur
failures_by_type_of(rs) ==
    LET key(r) == IF r.error # None THEN r.error[1] ELSE "unknown"
        keys == {key(rs[n]) : n \in {m \in 1..Len(rs) : ~rs[m].ok}}
    IN  [k \in keys |-> Cardinality({n \in Indices(rs) : ~rs[n].ok /\ key(rs[n]) = k})]

\* the locals the gate reads
aggregate(rs) ==
    [total |-> Len(rs), ok_count |-> ok_count_of(rs), det_rate |-> det_rate_of(rs),
     cat_totals |-> cat_totals_of(rs), cat_ok |-> cat_ok_of(rs),
     cat_rates |-> cat_rates_of(rs)]

\* lines 326-334
thresholds_of(a) ==
    [min_corpus_size |-> a.min_corpus_size,
     min_success |-> [A |-> a.min_success_a, B |-> a.min_success_b, C |-> a.min_success_c],
     min_deterministic_rate |-> a.min_deterministic_rate]

\* lines 336-357 (timestamp, artifact paths and notes are fixed text)
summary_of(rs, a) ==
    [total_files |-> Len(rs),
     ok |-> ok_count_of(rs),
     failed |-> Len(rs) - ok_count_of(rs),
     per_category |-> [totals |-> cat_totals_of(rs), ok |-> cat_ok_of(rs),
                       success_rate |-> cat_rates_of(rs)],
     deterministic_rate |-> Round4(det_rate_of(rs)),
     timing_ms |-> percentiles(timings_of(rs)),
     failures_by_type |-> failures_by_type_of(rs),
     thresholds |-> thresholds_of(a)]

\* line 364
corpus_too_small(total, min_corpus_size) == min_corpus_size # 0 /\ total < min_corpus_size

\* the category check without the `cat_totals[k] > 0` guard
category_fails_unguarded(g, k, min_success) == FracLt(g.cat_rates[k], min_success)

\* lines 368, 370, 372: one category's check
category_fails(g, k, min_success) == g.cat_totals[k] > 0 /\ FracLt(g.cat_rates[k], min_success)

\* line 375
determinism_fails(g, min_rate) == FracLt(g.det_rate, min_rate)

\* the gate with the unlabeled bucket held to the category C minimum
gate_ok_gating_unlabeled(g, a) ==
    /\ ~corpus_too_small(g.total, a.min_corpus_size)
    /\ ~category_fails(g, "A", a.min_success_a)
    /\ ~category_fails(g, "B", a.min_success_b)
    /\ ~category_fails(g, "C", a.min_success_c)
    /\ ~category_fails(g, "_", a.min_success_c)
    /\ ~determinism_fails(g, a.min_deterministic_rate)

\* lines 362-376
gate_ok(g, a) ==
    /\ ~corpus_too_small(g.total, a.min_corpus_size)
    /\ ~category_fails(g, "A", a.min_success_a)
    /\ ~category_fails(g, "B", a.min_success_b)
    /\ ~category_fails(g, "C", a.min_success_c)
    /\ ~determinism_fails(g, a.min_deterministic_rate)

\* lines 385-390
gate_exit(g, a) == IF gate_ok(g, a) THEN 0 ELSE 2

----------------------------------------------------------------------------
\* Inputs: manifests, corpus directories, arguments, child-process behaviours

StrCat(cs) == [type |-> "string", chars |-> cs]

NullCat == [type |-> "null", chars |-> <<>>]

NumberCat == [type |-> "number", chars |-> <<>>]

AbsentCat == [type |-> "absent", chars |-> <<>>]

Item(rel, cat) == [type |-> "object", relpath |-> Some(rel), category |-> cat]

\* an items entry that is a JSON string instead of an object
StringItem == [type |-> "string", relpath |-> None, category |-> AbsentCat]

\* the items value of a manifest: its JSON type, bool(items), and the elements
\* of a list
NoItems == [type |-> "absent", truthy |-> FALSE, elems |-> <<>>]

ItemList(elems) == [type |-> "array", truthy |-> elems # <<>>, elems |-> elems]

ManifestFile(items) ==
    [exists |-> TRUE, parsable |-> TRUE, data |-> [type |-> "object", items |-> items]]

\* category spellings that normalise to A, B, C
LabelSpellings == <<Text(<<"a">>), Text(<<" ", "B", "\n">>), Text(<<"C">>)>>

\* category values that normalise to no category
NonLabels ==
    <<NullCat, StrCat(Text(<<"D">>)), NumberCat, AbsentCat, StrCat(Text(<<"A", "B">>)),
      StrCat(<<>>)>>

Cyclic(pool, n) == pool[((n - 1) % Len(pool)) + 1]

\* no manifest on disk
ManifestAbsent ==
    [exists |-> FALSE, parsable |-> FALSE, data |-> [type |-> "null", items |-> NoItems]]

\* a file that json.loads rejects
ManifestGarbage ==
    [exists |-> TRUE, parsable |-> FALSE, data |-> [type |-> "null", items |-> NoItems]]

\* the JSON text `[]`
ManifestTopArray ==
    [exists |-> TRUE, parsable |-> TRUE, data |-> [type |-> "array", items |-> NoItems]]

\* {"items": [{...}, "x"]}
ManifestStringItem ==
    ManifestFile(ItemList(<<Item(Names[1], StrCat(Text(<<"A">>))), StringItem>>))

\* every corpus file listed, last file first, labelled A, B, C in turn
ManifestLabeled ==
    ManifestFile(ItemList([n \in 1..MaxFiles |->
        Item(Names[MaxFiles + 1 - n], StrCat(Cyclic(LabelSpellings, n)))]))

\* every corpus file listed, none with a usable category; an entry without
\* relpath and a repeated entry besides
ManifestUnlabeled ==
    ManifestFile(ItemList(
        <<[type |-> "object", relpath |-> None, category |-> StrCat(Text(<<"A">>))]>>
        \o [n \in 1..MaxFiles |-> Item(Names[n], Cyclic(NonLabels, n))]
        \o <<Item(Names[1], NullCat)>>))

\* {"items": 0}
ManifestZeroItems ==
    ManifestFile([type |-> "number", truthy |-> FALSE, elems |-> <<>>])

\* {"items": "x"}
ManifestTextItems ==
    ManifestFile([type |-> "string", truthy |-> TRUE, elems |-> <<>>])

Manifests ==
    {ManifestAbsent, ManifestGarbage, ManifestTopArray, ManifestStringItem,
     ManifestZeroItems, ManifestTextItems, ManifestLabeled, ManifestUnlabeled}

CorpusFiles == {Names[n] : n \in 1..MaxFiles}

DiskStates == {{}, CorpusFiles, {Names[MaxFiles]}}

\* argparse defaults, lines 168-182
DefaultArgs ==
    [timeout_s |-> 30, check_markdown |-> FALSE, max_files |-> 0,
     min_corpus_size |-> 100,
     min_success_a |-> <<95, 100>>, min_success_b |-> <<85, 100>>,
     min_success_c |-> <<80, 100>>, min_deterministic_rate |-> <<99, 100>>]

\* --min-corpus-size 1 --min-success-a 0.5 ... --min-deterministic-rate 0.5
LenientArgs ==
    [DefaultArgs EXCEPT !.min_corpus_size = 1,
                        !.min_success_a = <<1, 2>>, !.min_success_b = <<1, 2>>,
                        !.min_success_c = <<1, 2>>, !.min_deterministic_rate = <<1, 2>>]

\* --max-files 0 (no limit), 1 or 2, and --check-markdown --max-files 1
RunArgs ==
    {[LenientArgs EXCEPT !.max_files = mf] : mf \in {0, 1, 2}}
    \union {[LenientArgs EXCEPT !.check_markdown = TRUE, !.max_files = 1]}

Exits(code, out, err) ==
    [starts |-> TRUE, timed_out |-> FALSE, returncode |-> code, stdout |-> Some(out),
     stderr |-> Some(err), ms |-> 7, lag |-> 0]

Hangs(stdout, stderr, lag) ==
    [starts |-> TRUE, timed_out |-> TRUE, returncode |-> 0, stdout |-> stdout,
     stderr |-> stderr, ms |-> 0, lag |-> lag]

\* a program file the operating system refuses to execute
CannotStart ==
    [starts |-> FALSE, timed_out |-> FALSE, returncode |-> 0, stdout |-> None,
     stderr |-> None, ms |-> 0, lag |-> 0]

\* texts the program under test writes: version 'HWP 5.0', encrypted 'file is
\* Encrypted', size_limit 'Size Limit hit', bad_record, partial, distribution
\* 'Distribution document'; doc1 is one section holding one table, doc2 two
\* sections, the second holding one paragraph; md1 '# A', md2 '# B'
ChildText ==
    [version |-> Text(<<"H", "W", "P", " ", "5", ".", "0">>),
     encrypted |-> Text(<<"f", "i", "l", "e", " ", "i", "s", " ", "E", "n", "c", "r", "y", "p",
         "t", "e", "d">>),
     size_limit |-> Text(<<"S", "i", "z", "e", " ", "L", "i", "m", "i", "t", " ", "h", "i",
         "t">>),
     bad_record |-> Text(<<"b", "a", "d", " ", "r", "e", "c", "o", "r", "d">>),
     partial |-> Text(<<"p", "a", "r", "t", "i", "a", "l">>),
     distribution |-> Text(<<"D", "i", "s", "t", "r", "i", "b", "u", "t", "i", "o", "n", " ",
         "d", "o", "c", "u", "m", "e", "n", "t">>),
     doc1 |-> Text(<<"{", "\"", "s", "e", "c", "t", "i", "o", "n", "s", "\"", ":", "[", "{",
         "\"", "c", "o", "n", "t", "e", "n", "t", "\"", ":", "[", "{", "\"", "t", "y", "p", "e",
         "\"", ":", "\"", "t", "a", "b", "l", "e", "\"", "}", "]", "}", "]", "}">>),
     doc2 |-> Text(<<"{", "\"", "s", "e", "c", "t", "i", "o", "n", "s", "\"", ":", " ", "[",
         "{", "}", ",", " ", "{", "\"", "c", "o", "n", "t", "e", "n", "t", "\"", ":", " ", "[",
         "{", "\"", "t", "y", "p", "e", "\"", ":", " ", "\"", "p", "a", "r", "a", "g", "r", "a",
         "p", "h", "\"", "}", "]", "}", "]", "}">>),
     md1 |-> Text(<<"#", " ", "A">>),
     md2 |-> Text(<<"#", " ", "B">>)]

\* behaviours of `hwp info <file>`
InfoProcs ==
    {Exits(0, ChildText.version, <<>>),
     Exits(1, <<>>, ChildText.encrypted),
     Exits(2, ChildText.size_limit, <<>>),
     Hangs(None, None, 2)}

\* behaviours of `hwp json <file>`
JsonProcs ==
    {Exits(0, ChildText.doc1, <<>>),
     Exits(0, ChildText.doc2, <<>>),
     Exits(1, <<>>, ChildText.bad_record),
     Hangs(None, None, 2)}

\* behaviours of `hwp markdown <file>`
MarkdownProcs ==
    {Exits(0, ChildText.md1, <<>>),
     Exits(0, ChildText.md2, <<>>),
     Exits(2, ChildText.partial, ChildText.distribution),
     Hangs(None, None, 2)}

OutcomeKinds == {"det", "nondet", "fail"}

\* the locals of an iteration that ended the given way (no markdown):
\* det: all three runs exit 0 with equal outputs; nondet: the two json
\* outputs differ; fail: the first json run exits 1
OutcomeLocals(rel, cat, kind) ==
    [NoIteration EXCEPT
        !.rel = rel, !.size = FileSize(rel), !.cat = cat,
        !.i = run_cmd(Exits(0, ChildText.version, <<>>), DefaultArgs.timeout_s).value,
        !.a = run_cmd(IF kind = "fail" THEN Exits(1, <<>>, ChildText.bad_record)
                      ELSE Exits(0, ChildText.doc1, <<>>), DefaultArgs.timeout_s).value,
        !.b = run_cmd(Exits(0, IF kind = "nondet" THEN ChildText.doc2 ELSE ChildText.doc1, <<>>),
                      DefaultArgs.timeout_s).value,
        !.m1 = MdDefault, !.m2 = MdDefault]

OutcomeResult(rel, cat, kind) == run_result(OutcomeLocals(rel, cat, kind), FALSE)

\* reports/v1_gate as an earlier run left it. The artifacts are named by the
\* second in which main() reaches line 212, so a run finds its own two files
\* only where an earlier run was started within the same second.
CleanTree == [dir |-> FALSE, details |-> <<>>, summary |-> None]

\* the directory holds the artifacts of other seconds
OtherSecond == [dir |-> TRUE, details |-> <<>>, summary |-> None]

\* a run over the first file alone, started in the same second
SameSecond ==
    [dir |-> TRUE,
     details |-> <<OutcomeResult(Names[1], None, "det")>>,
     summary |-> Some(summary_of(<<OutcomeResult(Names[1], None, "det")>>, DefaultArgs))]

EarlierRuns == {CleanTree, OtherSecond, SameSecond}

----------------------------------------------------------------------------
\* main()

NoStats == [p50 |-> 0, p95 |-> 0, p99 |-> 0]

NoAggregate == aggregate(<<>>)

Init ==
    /\ corpus_exists \in BOOLEAN
    /\ manifest \in Manifests
    /\ disk \in DiskStates
    /\ corpus_exists \/ disk = {}
    /\ bin_exists \in BOOLEAN
    /\ bin_executable \in BOOLEAN
    /\ bin_executable => bin_exists
    /\ earlier \in EarlierRuns
    /\ args \in RunArgs
    /\ pc = "start"
    /\ category_map = <<>>
    /\ files = <<>>
    /\ pos = 0
    /\ cur = NoIteration
    /\ results = <<>>
    /\ reports_dir = earlier.dir
    /\ details = earlier.details
    /\ summary = earlier.summary
    /\ agg = NoAggregate
    /\ exit_code = None
    /\ log = <<>>
    /\ timings = <<>>
    /\ timing_stats = NoStats

env == <<corpus_exists, manifest, disk, bin_exists, bin_executable, earlier, args>>

outputs == <<reports_dir, details, summary, log>>

stats_vars == <<agg, timings, timing_stats>>

\* lines 191-193
CheckCorpusDir ==
    /\ pc = "start"
    /\ IF ~corpus_exists
       THEN pc' = "done" /\ exit_code' = Some(3)
       ELSE pc' = "load_manifest" /\ exit_code' = exit_code
    /\ UNCHANGED <<env, category_map, files, pos, cur, results, outputs, stats_vars>>

\* line 195; an exception leaving load_category_map ends the process with
\* a traceback and exit status 1
LoadManifest ==
    /\ pc = "load_manifest"
    /\ LET r == load_category_map(manifest)
       IN  IF r.raised
           THEN pc' = "crashed" /\ exit_code' = Some(1) /\ category_map' = category_map
           ELSE pc' = "find_files" /\ exit_code' = exit_code /\ category_map' = r.value
    /\ UNCHANGED <<env, files, pos, cur, results, outputs, stats_vars>>

\* lines 198-199
cap_files(found, max_files) ==
    IF max_files # 0 /\ max_files > 0
    THEN SubSeq(found, 1, Min2(max_files, Len(found)))
    ELSE found

\* lines 196-203
FindFiles ==
    /\ pc = "find_files"
    /\ files' = cap_files(find_corpus_files(disk, category_map), args.max_files)
    /\ IF files' = <<>>
       THEN pc' = "done" /\ exit_code' = Some(3)
       ELSE pc' = "check_bin" /\ exit_code' = exit_code
    /\ UNCHANGED <<env, category_map, pos, cur, results, outputs, stats_vars>>

\* lines 205-208
CheckBinary ==
    /\ pc = "check_bin"
    /\ IF ~bin_exists
       THEN pc' = "done" /\ exit_code' = Some(3)
       ELSE pc' = "open_reports" /\ exit_code' = exit_code
    /\ UNCHANGED <<env, category_map, files, pos, cur, results, outputs, stats_vars>>

\* lines 210-216
OpenReports ==
    /\ pc = "open_reports"
    /\ reports_dir' = TRUE
    /\ results' = <<>>
    /\ pc' = "loop"
    /\ UNCHANGED <<env, category_map, files, pos, cur, details, summary, log,
                   stats_vars, exit_code>>

\* lines 218-220: the next file; the previous iteration's locals are rebound
\* before they are read again
NextFile ==
    /\ pc = "loop"
    /\ pos < Len(files)
    /\ pos' = pos + 1
    /\ cur' = [NoIteration EXCEPT !.rel = files[pos + 1],
                                  !.size = FileSize(files[pos + 1]),
                                  !.cat = DictGetOr(category_map, files[pos + 1], None)]
    /\ pc' = "info"
    /\ UNCHANGED <<env, category_map, files, results, outputs, stats_vars, exit_code>>

\* line 218: the list is exhausted; the loop's locals are not read again
LoopDone ==
    /\ pc = "loop"
    /\ pos = Len(files)
    /\ cur' = NoIteration
    /\ pc' = "aggregate"
    /\ UNCHANGED <<env, category_map, files, pos, results, outputs, stats_vars,
                   exit_code>>

Spawn(cmd) == Append(log, <<"run", cmd, cur.rel>>)

\* the behaviours the program under test can show
Children(procs) == IF bin_executable THEN procs ELSE {CannotStart}

\* an exception leaving run_cmd ends the process with a traceback and exit
\* status 1
Traceback ==
    /\ pc' = "crashed"
    /\ exit_code' = Some(1)
    /\ UNCHANGED <<cur, log>>

\* line 223
RunInfo ==
    /\ pc = "info"
    /\ \E proc \in Children(InfoProcs) :
          LET r == run_cmd(proc, args.timeout_s)
          IN  IF r.raised THEN Traceback
              ELSE /\ cur' = [cur EXCEPT !.i = r.value]
                   /\ log' = Spawn("info")
                   /\ pc' = "json_a"
                   /\ exit_code' = exit_code
    /\ UNCHANGED <<env, category_map, files, pos, results, reports_dir, details, summary,
                   stats_vars>>

\* line 226
RunJsonA ==
    /\ pc = "json_a"
    /\ \E proc \in Children(JsonProcs) :
          LET r == run_cmd(proc, args.timeout_s)
          IN  IF r.raised THEN Traceback
              ELSE /\ cur' = [cur EXCEPT !.a = r.value]
                   /\ log' = Spawn("json")
                   /\ pc' = "json_b"
                   /\ exit_code' = exit_code
    /\ UNCHANGED <<env, category_map, files, pos, results, reports_dir, details, summary,
                   stats_vars>>

\* after line 236 or line 242
after_json(check_markdown) == IF check_markdown THEN "markdown_a" ELSE "record"

\* lines 227-236
RunJsonB ==
    /\ pc = "json_b"
    /\ \E proc \in Children(JsonProcs) :
          LET r == run_cmd(proc, args.timeout_s)
          IN  IF r.raised THEN Traceback
              ELSE /\ cur' = [cur EXCEPT !.b = r.value, !.m1 = MdDefault, !.m2 = MdDefault]
                   /\ log' = Spawn("json")
                   /\ pc' = after_json(args.check_markdown)
                   /\ exit_code' = exit_code
    /\ UNCHANGED <<env, category_map, files, pos, results, reports_dir, details, summary,
                   stats_vars>>

\* line 237
RunMarkdownA ==
    /\ pc = "markdown_a"
    /\ \E proc \in Children(MarkdownProcs) :
          LET r == run_cmd(proc, args.timeout_s)
          IN  IF r.raised THEN Traceback
              ELSE /\ cur' = [cur EXCEPT !.m1 = r.value]
                   /\ log' = Spawn("markdown")
                   /\ pc' = "markdown_b"
                   /\ exit_code' = exit_code
    /\ UNCHANGED <<env, category_map, files, pos, results, reports_dir, details, summary,
                   stats_vars>>

\* lines 238-242
RunMarkdownB ==
    /\ pc = "markdown_b"
    /\ \E proc \in Children(MarkdownProcs) :
          LET r == run_cmd(proc, args.timeout_s)
              h == md_hashes(cur.m1, r.value)
          IN  IF r.raised THEN Traceback
              ELSE /\ cur' = [cur EXCEPT !.m2 = r.value, !.md_sha_a = h.md_sha_a,
                                         !.md_sha_b = h.md_sha_b, !.md_det = h.md_det]
                   /\ log' = Spawn("markdown")
                   /\ pc' = "record"
                   /\ exit_code' = exit_code
    /\ UNCHANGED <<env, category_map, files, pos, results, reports_dir, details, summary,
                   stats_vars>>

\* lines 244-298
RecordResult ==
    /\ pc = "record"
    /\ \E r \in {run_result(cur, args.check_markdown)} :
           /\ results' = Append(results, r)
           /\ details' = Append(details, r)
    /\ log' = Append(log, <<"write", "details", cur.rel>>)
    /\ pc' = "loop"
    /\ UNCHANGED <<env, category_map, files, pos, cur, reports_dir, summary, stats_vars,
                   exit_code>>

\* lines 300-359
WriteSummary ==
    /\ pc = "aggregate"
    /\ agg' = aggregate(results)
    /\ timings' = timings_of(results)
    /\ timing_stats' = percentiles(timings_of(results))
    /\ summary' = Some(summary_of(results, args))
    /\ log' = Append(log, <<"write", "summary", "">>)
    /\ pc' = "gate"
    /\ UNCHANGED <<env, category_map, files, pos, cur, results, reports_dir, details,
                   exit_code>>

\* lines 361-390
EvaluateGate ==
    /\ pc = "gate"
    /\ exit_code' = Some(gate_exit(agg, args))
    /\ pc' = "done"
    /\ UNCHANGED <<env, category_map, files, pos, cur, results, outputs, stats_vars>>

Next ==
    \/ CheckCorpusDir
    \/ LoadManifest
    \/ FindFiles
    \/ CheckBinary
    \/ OpenReports
    \/ NextFile
    \/ LoopDone
    \/ RunInfo
    \/ RunJsonA
    \/ RunJsonB
    \/ RunMarkdownA
    \/ RunMarkdownB
    \/ RecordResult
    \/ WriteSummary
    \/ EvaluateGate

Spec == Init /\ [][Next]_vars

----------------------------------------------------------------------------
\* The aggregation and the gate on their own: main() from line 300 on, started
\* from the state a run over n labelled files has reached.

Categories == {Some("A"), Some("B"), Some("C"), None}

CatJson(cat) == IF cat = None THEN NullCat ELSE StrCat(<<Ord[cat[1]]>>)

\* the effects a full run over fs performs, in order
file_effects(rel, check_markdown) ==
    <<<<"run", "info", rel>>, <<"run", "json", rel>>, <<"run", "json", rel>>>>
    \o (IF check_markdown
        THEN <<<<"run", "markdown", rel>>, <<"run", "markdown", rel>>>>
        ELSE <<>>)
    \o <<<<"write", "details", rel>>>>

loop_effects(fs, check_markdown) ==
    Concat([n \in 1..Len(fs) |-> file_effects(fs[n], check_markdown)])

GateArgs ==
    {[DefaultArgs EXCEPT !.min_corpus_size = m, !.min_success_a = sa,
                         !.min_success_b = sb, !.min_deterministic_rate = d] :
        m \in {0, 2},
        sa \in {<<95, 100>>, <<6667, 10000>>},
        sb \in {<<85, 100>>, <<33333, 100000>>},
        d \in {<<99, 100>>, <<0, 1>>}}

InitGate ==
    \E n \in 1..MaxResults :
      \E cats \in [1..n -> Categories], kinds \in [1..n -> OutcomeKinds] :
        /\ corpus_exists = TRUE
        /\ bin_exists = TRUE
        /\ bin_executable = TRUE
        /\ earlier = CleanTree
        /\ manifest = ManifestFile(ItemList([k \in 1..n |-> Item(Names[k], CatJson(cats[k]))]))
        /\ disk = {Names[k] : k \in 1..n}
        /\ args \in GateArgs
        /\ category_map = load_category_map(manifest).value
        /\ files = cap_files(find_corpus_files(disk, category_map), args.max_files)
        /\ pos = n
        /\ cur = NoIteration
        /\ results = [k \in 1..n |-> OutcomeResult(Names[k], cats[k], kinds[k])]
        /\ reports_dir = TRUE
        /\ details = results
        /\ summary = None
        /\ agg = NoAggregate
        /\ exit_code = None
        /\ log = loop_effects(files, FALSE)
        /\ timings = <<>>
        /\ timing_stats = NoStats
        /\ pc = "aggregate"

NextGate ==
    \/ WriteSummary
    \/ EvaluateGate

SpecGate == InitGate /\ [][NextGate]_vars

----------------------------------------------------------------------------
\* percentiles() on its own

RECURSIVE SeqsUpTo(_, _)
SeqsUpTo(S, n) ==
    IF n = 0 THEN {<<>>}
    ELSE LET shorter == SeqsUpTo(S, n - 1)
         IN  shorter \cup {Append(q, x) : q \in shorter, x \in S}

InitPct ==
    /\ corpus_exists = TRUE
    /\ bin_exists = TRUE
    /\ bin_executable = TRUE
    /\ earlier = CleanTree
    /\ manifest = ManifestAbsent
    /\ disk = {}
    /\ args = DefaultArgs
    /\ category_map = <<>>
    /\ files = <<>>
    /\ pos = 0
    /\ cur = NoIteration
    /\ results = <<>>
    /\ reports_dir = FALSE
    /\ details = <<>>
    /\ summary = None
    /\ agg = NoAggregate
    /\ exit_code = None
    /\ log = <<>>
    /\ timings \in SeqsUpTo(1..MaxVal, MaxLen)
    /\ timing_stats = NoStats
    /\ pc = "percentiles"

\* lines 104-113
ComputePercentiles ==
    /\ pc = "percentiles"
    /\ timing_stats' = percentiles(timings)
    /\ pc' = "percentiles_done"
    /\ UNCHANGED <<env, category_map, files, pos, cur, results, outputs, agg, timings,
                   exit_code>>

NextPct == ComputePercentiles

SpecPct == InitPct /\ [][NextPct]_vars

----------------------------------------------------------------------------
\* Properties

Terminated == pc \in {"done", "crashed"}

GateCategories == {"A", "B", "C"}

ErrorKinds == {"encrypted", "distribution", "size_limit", "timeout", "parse_error"}

\* the number of results of category k (k = "_": of no category), and of those the successes
InCategory(r, k) == IF k = "_" THEN r.category \notin {Some(c) : c \in GateCategories}
                    ELSE r.category = Some(k)

NumberIn(k) == Cardinality({n \in 1..Len(results) : InCategory(results[n], k)})

SuccessesIn(k) == Cardinality({n \in 1..Len(results) : InCategory(results[n], k) /\ results[n].ok})

Successes == Cardinality({n \in 1..Len(results) : results[n].ok})

DeterministicSuccesses ==
    Cardinality({n \in 1..Len(results) :
        results[n].ok /\ results[n].out_sha256_a = results[n].out_sha256_b})

MinSuccess(a, k) ==
    CASE k = "A" -> a.min_success_a
      [] k = "B" -> a.min_success_b
      [] k = "C" -> a.min_success_c

WithMinSuccess(a, k, t) ==
    CASE k = "A" -> [a EXCEPT !.min_success_a = t]
      [] k = "B" -> [a EXCEPT !.min_success_b = t]
      [] k = "C" -> [a EXCEPT !.min_success_c = t]

\* C1: a run that passes setup exits 0 exactly when the file count reaches the
\* minimum corpus size, every category A, B, C with at least one file has
\* successes / total >= its minimum, and deterministic successes / successes
\* (0 without successes) >= the minimum determinism rate; it exits 2 otherwise.
C1_ExitIffExactRatesMeetMinimums ==
    pc = "done" =>
        LET met ==
              /\ Len(results) >= args.min_corpus_size
              /\ \A k \in GateCategories :
                    NumberIn(k) > 0 =>
                        ~FracLt(<<SuccessesIn(k), NumberIn(k)>>, MinSuccess(args, k))
              /\ ~FracLt(IF Successes = 0 THEN <<0, 1>>
                         ELSE <<DeterministicSuccesses, Successes>>,
                         args.min_deterministic_rate)
        IN  exit_code = IF met THEN Some(0) ELSE Some(2)

AltMinimums == {<<0, 1>>, <<1, 2>>, <<1, 1>>, <<3, 2>>, <<2, 1>>}

\* C2: a category among A, B, C without files never fails the gate: with the
\* same results, any other minimum success rate for that category (also one
\* above 1) gives the same exit code.
C2_EmptyCategoryNeverFails ==
    pc = "done" =>
        \A k \in GateCategories :
            NumberIn(k) = 0 =>
                \A t \in AltMinimums :
                    gate_exit(aggregate(results), WithMinSuccess(args, k, t)) = exit_code[1]

\* a run over files of category A only passes although the minimums of the
\* empty categories B and C are above the rate 0 reported for them
C2_Witness ==
    /\ pc = "done"
    /\ Len(results) >= 2
    /\ NumberIn("A") = Len(results)
    /\ args.min_success_b = <<85, 100>>
    /\ summary[1].per_category.success_rate["B"] = <<0, 10000>>
    /\ exit_code = Some(0)

\* the manifest gives no file a category
NoCategories == \A j \in 1..Len(category_map) : category_map[j][2] = None

\* the runs over the same files and categories with other per-file outcomes
AltRuns(rs) ==
    {[n \in 1..Len(rs) |->
        [rs[n] EXCEPT !.ok = (kinds[n] # "fail"),
                      !.error = IF kinds[n] = "fail" THEN Some("parse_error") ELSE None,
                      !.deterministic = IF kinds[n] = "fail" THEN None
                                        ELSE Some(kinds[n] = "det")]] :
        kinds \in [1..Len(rs) -> OutcomeKinds]}

SameFrac(x, y) == x[1] * y[2] = y[1] * x[2]

AllUnlabeled == agg.cat_totals = [k \in Buckets |-> IF k = "_" THEN Len(results) ELSE 0]

\* C3 (as amended): when the manifest assigns no category, every RunResult is
\* counted in the bucket "_" and in no other, and any run over as many
\* unlabeled files with the same thresholds and the same determinism rate
\* exits with the same code, whatever number of its files succeeded.
C3_UnlabeledRateNeverGated ==
    (pc = "done" /\ exit_code \in {Some(0), Some(2)} /\ NoCategories) =>
        /\ AllUnlabeled
        /\ \A alt \in AltRuns(results) :
              SameFrac(det_rate_of(alt), det_rate_of(results)) =>
                  gate_exit(aggregate(alt), args) = exit_code[1]

\* C3 (as stated): ... any run over as many unlabeled files with the same
\* thresholds exits with the same code, whatever number of its files succeeded.
C3_ExitIndependentOfSuccesses ==
    (pc = "done" /\ exit_code \in {Some(0), Some(2)} /\ NoCategories) =>
        /\ AllUnlabeled
        /\ \A alt \in AltRuns(results) :
              gate_exit(aggregate(alt), args) = exit_code[1]

\* a manifest with invalid categories only; one of three files succeeds, below
\* every category minimum, and the run passes
C3_Witness ==
    /\ pc = "done"
    /\ manifest = ManifestUnlabeled
    /\ NoCategories
    /\ Len(results) = 3
    /\ Successes = 1
    /\ FracLt(agg.cat_rates["_"], args.min_success_c)
    /\ exit_code = Some(0)

\* the resolved file list is empty after the cap
NoFilesResolved ==
    /\ corpus_exists
    /\ ~load_category_map(manifest).raised
    /\ cap_files(find_corpus_files(disk, load_category_map(manifest).value),
                 args.max_files) = <<>>

\* nothing was run, and reports/v1_gate is as the run found it
NoEffects ==
    /\ log = <<>>
    /\ reports_dir = earlier.dir
    /\ details = earlier.details
    /\ summary = earlier.summary

\* C4: a missing corpus directory, an empty resolved file list and a missing
\* executable each make main return 3, with no invocation performed and no
\* reports directory or artifact written; 0 and 2 are not returned.
C4_SetupErrorsReturn3 ==
    (Terminated /\ (~corpus_exists \/ ~bin_exists \/ NoFilesResolved)) =>
        exit_code = Some(3) /\ NoEffects

\* the iteration for files[pos] has just appended its result
JustRecorded == pc = "loop" /\ pos > 0

Invocations(c, check_markdown) ==
    {c.i, c.a, c.b} \cup (IF check_markdown THEN {c.m1, c.m2} ELSE {})

\* the output captured from the file's invocations, lower-cased
CapturedText(c) ==
    Lower(Decode(c.i.err \o c.a.err \o c.b.err \o c.m1.err \o c.m2.err \o Text(<<"\n">>)
                 \o c.i.out \o c.a.out \o c.b.out \o c.m1.out \o c.m2.out))

Mentions(text, phrases) ==
    \E phrase \in phrases :
        \E n \in 0..(Len(text) - Len(phrase)) :
            SubSeq(text, n + 1, n + Len(phrase)) = phrase

\* the kind a timed-out file gets: the first text rule that matches, else timeout
TimeoutKind(text) ==
    IF Mentions(text, {Phrase.encrypted, Phrase.encryption}) THEN "encrypted"
    ELSE IF Mentions(text, {Phrase.distribution}) THEN "distribution"
    ELSE IF Mentions(text, {Phrase.size_limit, Phrase.sizelimit, Phrase.limit_exceeded}) THEN "size_limit"
    ELSE "timeout"

\* C5: when any invocation of a file exceeds the timeout, it yields status 124
\* and the file's RunResult has ok = false and error = "timeout", unless the
\* captured output of the file's invocations matches encrypted, distribution
\* or size_limit, the first of which is then the error.
C5_TimedOutFileIsTimeout ==
    (JustRecorded /\ \E inv \in Invocations(cur, args.check_markdown) : inv.code = 124) =>
        /\ ~results[pos].ok
        /\ results[pos].error = Some(TimeoutKind(CapturedText(cur)))

MalformedManifest ==
    \/ ~manifest.parsable
    \/ manifest.data.type # "object"
    \/ manifest.data.items.type \notin {"absent", "array"}
    \/ manifest.data.items.type = "array"
       /\ \E n \in 1..Len(manifest.data.items.elems) :
             manifest.data.items.elems[n].type # "object"

\* C6: load_category_map never fails the run: it returns a mapping for every
\* manifest, the empty one for an absent or malformed manifest.
C6_LoadNeverFails ==
    /\ ~(pc = "crashed" /\ files = <<>>)
    /\ (pc \notin {"start", "load_manifest"} /\ corpus_exists
        /\ (~manifest.exists \/ MalformedManifest)) => category_map = <<>>

\* C7: ok is true exactly when every configured invocation of the file exited
\* with 0; error is null exactly when ok is true; a failed file's error is one
\* of encrypted, distribution, size_limit, timeout, parse_error.
C7_OkIffAllExitZero ==
    /\ JustRecorded =>
          (results[pos].ok <=> \A inv \in Invocations(cur, args.check_markdown) : inv.code = 0)
    /\ \A n \in 1..Len(results) :
          /\ (results[n].error = None) <=> results[n].ok
          /\ ~results[n].ok => results[n].error[1] \in ErrorKinds
    /\ details = earlier.details \o results

\* only the second markdown run hangs: the file fails as a timeout
C7_Witness ==
    /\ JustRecorded
    /\ args.check_markdown
    /\ cur.i.code = 0 /\ cur.a.code = 0 /\ cur.b.code = 0 /\ cur.m1.code = 0
    /\ cur.m2.code = 124
    /\ ~results[pos].ok
    /\ results[pos].error = Some("timeout")

Verdict(det, sha_a, sha_b) == det # None => (sha_a # None /\ sha_b # None /\ det[1] = (sha_a = sha_b))

\* C8: the structured-output hashes and verdict, and the markdown hashes and
\* verdict, are non-null only if ok is true; a non-null verdict is true exactly
\* when the two hashes of its pair are equal.
C8_HashesOnlyWhenOk ==
    \A n \in 1..Len(results) :
        LET r == results[n]
        IN  /\ (r.out_sha256_a # None \/ r.out_sha256_b # None \/ r.deterministic # None)
                  => r.ok
            /\ (r.md_sha256_a # None \/ r.md_sha256_b # None \/ r.md_deterministic # None)
                  => r.ok
            /\ Verdict(r.deterministic, r.out_sha256_a, r.out_sha256_b)
            /\ Verdict(r.md_deterministic, r.md_sha256_a, r.md_sha256_b)

IsPrefix(q, t) == Len(q) <= Len(t) /\ SubSeq(t, 1, Len(q)) = q

\* per file, in enumeration order: info, json, json, (markdown, markdown,) the
\* details record; then the summary
ExpectedEffects ==
    Concat([n \in 1..Len(files) |->
        <<<<"run", "info", files[n]>>, <<"run", "json", files[n]>>,
          <<"run", "json", files[n]>>>>
        \o (IF args.check_markdown
            THEN <<<<"run", "markdown", files[n]>>, <<"run", "markdown", files[n]>>>>
            ELSE <<>>)
        \o <<<<"write", "details", files[n]>>>>])
    \o <<<<"write", "summary", "">>>>

\* main() has passed line 208
PassedSetup ==
    /\ pc \notin {"start", "load_manifest", "find_files", "check_bin"}
    /\ Terminated => (exit_code # Some(3) /\ files # <<>>)

DetailsWritten == Len(SelectSeq(log, LAMBDA e : e[1] = "write" /\ e[2] = "details"))

\* C9: once setup has passed, whatever fails or times out, the run never
\* aborts and is sequential: each file gets its invocations once, in order,
\* then its one details record, before the next file starts; the summary is
\* written once, after the last record, before 0 or 2 is returned.
C9_SequentialNeverAborts ==
    PassedSetup =>
        /\ pc # "crashed"
        /\ IsPrefix(log, ExpectedEffects)
        /\ Len(details) = Len(earlier.details) + DetailsWritten
        /\ \A n \in 1..DetailsWritten :
              details[Len(earlier.details) + n].relpath = files[n]
        /\ (summary # earlier.summary) => (log = ExpectedEffects)
        /\ (log = ExpectedEffects) => summary = Some(summary_of(results, args))
        /\ exit_code # None =>
              /\ exit_code \in {Some(0), Some(2)}
              /\ log = ExpectedEffects
              /\ DetailsWritten = Len(files)
        /\ pc = "done" => exit_code # None

Abs(x) == IF x < 0 THEN 0 - x ELSE x

\* the 0-based index nearest to p% of n - 1, the even one of two equally near
NearestIndex(p, n) ==
    LET dist(j) == Abs(100 * j - p * (n - 1))
        nearest == {j \in 0..(n - 1) : \A k \in 0..(n - 1) : dist(j) <= dist(k)}
    IN  CHOOSE j \in nearest : Cardinality(nearest) = 1 \/ j % 2 = 0

\* x stands at 0-based index j of the ascending sort of values
AtSortedIndex(values, j, x) ==
    /\ \E n \in 1..Len(values) : values[n] = x
    /\ Cardinality({n \in 1..Len(values) : values[n] < x}) <= j
    /\ j < Cardinality({n \in 1..Len(values) : values[n] <= x})

PercentileShape ==
    /\ timing_stats.p50 <= timing_stats.p95
    /\ timing_stats.p95 <= timing_stats.p99
    /\ Len(timings) = 1 =>
          timing_stats = [p50 |-> timings[1], p95 |-> timings[1], p99 |-> timings[1]]

\* C10 (as amended): percentiles of an empty list are 0; of n values, the
\* percentile p is the element of the ascending sort at the 0-based index
\* round(p * (n - 1)), rounding half to even (so it is a member of the list,
\* p50 <= p95 <= p99, and a single value gives that value three times).
C10_PercentileAtRoundedIndex ==
    pc = "percentiles_done" =>
        IF timings = <<>> THEN timing_stats = [p50 |-> 0, p95 |-> 0, p99 |-> 0]
        ELSE /\ AtSortedIndex(timings, NearestIndex(50, Len(timings)), timing_stats.p50)
             /\ AtSortedIndex(timings, NearestIndex(95, Len(timings)), timing_stats.p95)
             /\ AtSortedIndex(timings, NearestIndex(99, Len(timings)), timing_stats.p99)
             /\ PercentileShape

CeilDiv(n, d) == (n + d - 1) \div d

\* C10 (as stated): ... the percentile p is the element at the 1-based rank
\* ceil(p * n) of the ascending sort.
C10_PercentileAtCeilRank ==
    pc = "percentiles_done" =>
        IF timings = <<>> THEN timing_stats = [p50 |-> 0, p95 |-> 0, p99 |-> 0]
        ELSE /\ AtSortedIndex(timings, CeilDiv(50 * Len(timings), 100) - 1, timing_stats.p50)
             /\ AtSortedIndex(timings, CeilDiv(95 * Len(timings), 100) - 1, timing_stats.p95)
             /\ AtSortedIndex(timings, CeilDiv(99 * Len(timings), 100) - 1, timing_stats.p99)
             /\ PercentileShape

\* four values given unsorted: the median is the third smallest
C10_Witness ==
    /\ pc = "percentiles_done"
    /\ timings = <<3, 1, 2, 1>>
    /\ timing_stats = [p50 |-> 2, p95 |-> 3, p99 |-> 3]

====
